---- MODULE Spec2Model ----
(***************************************************************************)
(* Verification model of the PortfolioExpert calculator: the risk analysis *)
(* (RiskAnalysis in src/app/js/calculator/risk-analysis.js) and the value  *)
(* projection (Projection, same file), over the calculator state           *)
(* (CalculatorState, src/unnamed/part_001).                                *)
(*                                                                         *)
(* JavaScript numbers are modelled as exact reals.  Every number the code  *)
(* computes here is a rational, a rational multiple of one square root, or *)
(* such a value times a power base^exp; the arithmetic section below       *)
(* computes with exactly these forms and fails loudly (NoValue) on any     *)
(* other.  Floating-point rounding is not modelled.                        *)
(***************************************************************************)
EXTENDS Integers, Sequences, FiniteSets, TLC

(***************************************************************************)
(* Bounds of the model.                                                    *)
(***************************************************************************)
\* calendar dates are 1..MaxDate
MaxDate == 3
\* adjusted close prices are 0..MaxPrice (0 is a non-positive prior price)
MaxPrice == 2

(***************************************************************************)
(* Exact arithmetic: rationals [n, d] in lowest terms with d > 0.          *)
(***************************************************************************)
NoValue == CHOOSE x \in {} : TRUE

\* the element of a singleton: Once({body : v \in {expr}}) is body with v bound
\* to the value of expr, computed once, as a JavaScript const is
Once(S) == CHOOSE z \in S : TRUE

Abs(i) == IF i < 0 THEN -i ELSE i

Sgn(i) == IF i < 0 THEN -1 ELSE IF i > 0 THEN 1 ELSE 0

RECURSIVE GCD(_, _)
GCD(a, b) == IF b = 0 THEN a ELSE GCD(b, a % b)

LCM(a, b) == (a \div GCD(a, b)) * b

Q(n, d) ==
    LET s == IF d < 0 THEN -1 ELSE 1
        g == GCD(Abs(n), Abs(d))
    IN  [n |-> s * (n \div g), d |-> s * (d \div g)]

QInt(i) == [n |-> i, d |-> 1]

QNeg(a) == [n |-> -a.n, d |-> a.d]

QAdd(a, b) ==
    LET l == LCM(a.d, b.d)
    IN  Q(a.n * (l \div a.d) + b.n * (l \div b.d), l)

QSub(a, b) == QAdd(a, QNeg(b))

QMul(a, b) ==
    LET g1 == GCD(Abs(a.n), b.d)
        g2 == GCD(Abs(b.n), a.d)
    IN  IF a.n = 0 \/ b.n = 0 THEN QInt(0)
        ELSE [n |-> (a.n \div g1) * (b.n \div g2), d |-> (a.d \div g2) * (b.d \div g1)]

QInv(a) == IF a.n < 0 THEN [n |-> -a.d, d |-> -a.n] ELSE [n |-> a.d, d |-> a.n]

QDiv(a, b) == QMul(a, QInv(b))

QSgn(a) == Sgn(a.n)

QCmp(a, b) ==
    LET l == LCM(a.d, b.d)
    IN  Sgn(a.n * (l \div a.d) - b.n * (l \div b.d))

\* floor of the square root of a natural number (Newton iteration from above)
RECURSIVE ISqrtFrom(_, _)
ISqrtFrom(n, x) ==
    LET y == (x + n \div x) \div 2
    IN  IF y >= x THEN x ELSE ISqrtFrom(n, y)

ISqrt(n) == IF n < 2 THEN n ELSE ISqrtFrom(n, n \div 2)

IsSquare(n) == ISqrt(n) * ISqrt(n) = n

(***************************************************************************)
(* Exact reals  b^e * (k + s * sqrt(r)),  b, k, s, r rational, r >= 0,     *)
(* e natural.  Normal form: e = 0 and b = 1 unless b is not in {0, 1, -1}; *)
(* s = 0 iff r = 0; r is not the square of a rational; zero is 1^0 * 0.    *)
(***************************************************************************)
XNorm(b, e, k, s, r) ==
    Once({Once({LET r1 == IF s1.n = 0 THEN QInt(0) ELSE r
                    zero == (k1.n = 0 /\ s1.n = 0) \/ (b.n = 0 /\ e > 0)
                    one == e = 0 \/ b = QInt(1)
                    neg == b = QInt(-1) /\ e % 2 = 1
                    unit == one \/ b = QInt(-1)
                IN  IF zero
                    THEN [b |-> QInt(1), e |-> 0, k |-> QInt(0), s |-> QInt(0),
                          r |-> QInt(0)]
                    ELSE IF unit
                         THEN [b |-> QInt(1), e |-> 0,
                               k |-> IF neg THEN QNeg(k1) ELSE k1,
                               s |-> IF neg THEN QNeg(s1) ELSE s1, r |-> r1]
                         ELSE [b |-> b, e |-> e, k |-> k1, s |-> s1, r |-> r1] :
                \* fold a rational square root into k
                k1 \in {IF s.n # 0 /\ sq
                        THEN QAdd(k, QMul(s, Q(ISqrt(r.n), ISqrt(r.d)))) ELSE k},
                s1 \in {IF r.n = 0 \/ sq THEN QInt(0) ELSE s}}) :
          sq \in {r.n > 0 /\ IsSquare(r.n) /\ IsSquare(r.d)}})

XQ(q) == XNorm(QInt(1), 0, q, QInt(0), QInt(0))

XInt(i) == XQ(QInt(i))

\* decimal literal m / 1000, e.g. 1.645
XMilli(m) == XQ(Q(m, 1000))

\* Math.sqrt of a non-negative rational
XSqrtQ(q) == XNorm(QInt(1), 0, QInt(0), QInt(1), q)

\* Math.sqrt of an exact real that is a non-negative rational
XSqrt(x) == IF x.e = 0 /\ x.s.n = 0 /\ x.k.n >= 0 THEN XSqrtQ(x.k) ELSE NoValue

\* Math.pow(x, n) for a rational x and a natural n
XPow(x, n) ==
    IF x.e = 0 /\ x.s.n = 0
    THEN XNorm(x.k, n, QInt(1), QInt(0), QInt(0))
    ELSE NoValue

XNeg(x) == [x EXCEPT !.k = QNeg(x.k), !.s = QNeg(x.s)]

XIsZero(x) == x.k.n = 0 /\ x.s.n = 0

XAdd(x, y) ==
    IF XIsZero(x) THEN y
    ELSE IF XIsZero(y) THEN x
    ELSE IF x.b = y.b /\ x.e = y.e /\ (x.r = y.r \/ x.s.n = 0 \/ y.s.n = 0)
    THEN XNorm(x.b, x.e, QAdd(x.k, y.k), QAdd(x.s, y.s),
               IF x.s.n = 0 THEN y.r ELSE x.r)
    ELSE NoValue

XSub(x, y) == XAdd(x, XNeg(y))

XMul(x, y) ==
    LET pw == IF x.e = 0 THEN [b |-> y.b, e |-> y.e]
              ELSE IF y.e = 0 THEN [b |-> x.b, e |-> x.e]
              ELSE IF x.b = y.b THEN [b |-> x.b, e |-> x.e + y.e]
              ELSE NoValue
    IN  IF XIsZero(x) \/ XIsZero(y) THEN XInt(0)
        ELSE IF x.s.n = 0
        THEN XNorm(pw.b, pw.e, QMul(x.k, y.k), QMul(x.k, y.s), y.r)
        ELSE IF y.s.n = 0
        THEN XNorm(pw.b, pw.e, QMul(x.k, y.k), QMul(y.k, x.s), x.r)
        ELSE IF x.k.n = 0 /\ y.k.n = 0
        THEN IF x.r = y.r
             THEN XNorm(pw.b, pw.e, QMul(QMul(x.s, y.s), x.r), QInt(0), QInt(0))
             ELSE XNorm(pw.b, pw.e, QInt(0), QMul(x.s, y.s), QMul(x.r, y.r))
        ELSE NoValue

\* x / y for y a non-zero rational or a non-zero rational multiple of a root
XDiv(x, y) ==
    IF y.e # 0 \/ XIsZero(y) THEN NoValue
    ELSE IF y.s.n = 0 THEN XMul(x, XQ(QInv(y.k)))
    ELSE IF y.k.n = 0
    THEN XMul(x, XNorm(QInt(1), 0, QInt(0), QInv(QMul(y.s, y.r)), y.r))
    ELSE NoValue

\* sign of k + s * sqrt(r)
XSgnRoot(x) ==
    IF x.s.n = 0 THEN QSgn(x.k)
    ELSE IF x.k.n = 0 THEN QSgn(x.s)
    ELSE IF QSgn(x.k) = QSgn(x.s) THEN QSgn(x.k)
    ELSE LET \* (s^2 r) / k^2 against 1
             q == QDiv(x.s, x.k)
             c == QCmp(QMul(QMul(q, q), x.r), QInt(1))
         IN  IF c = 0 THEN 0 ELSE IF c > 0 THEN QSgn(x.s) ELSE QSgn(x.k)

XSgn(x) ==
    IF x.b.n < 0 /\ x.e % 2 = 1 THEN -XSgnRoot(x) ELSE XSgnRoot(x)

\* a power-free single term as c * sqrt(q): its c and q
XCoef(x) == IF x.s.n = 0 THEN x.k ELSE x.s

XRadicand(x) == IF x.s.n = 0 THEN QInt(1) ELSE x.r

\* (x / y)^2 for two power-free single terms, as a rational
XSquareRatio(x, y) ==
    IF x.e # 0 \/ y.e # 0 \/ (x.k.n # 0 /\ x.s.n # 0) \/ (y.k.n # 0 /\ y.s.n # 0)
    THEN NoValue
    ELSE LET c == QDiv(XCoef(x), XCoef(y))
         IN  QMul(QMul(c, c), QDiv(XRadicand(x), XRadicand(y)))

\* -1, 0, 1 as x < y, x = y, x > y
XCmp(x, y) ==
    IF x = y THEN 0
    ELSE IF XIsZero(x) THEN -XSgn(y)
    ELSE IF XIsZero(y) THEN XSgn(x)
    ELSE IF XSgn(x) # XSgn(y) THEN Sgn(XSgn(x) - XSgn(y))
    ELSE IF x.b = y.b /\ x.e = y.e /\ (x.r = y.r \/ x.s.n = 0 \/ y.s.n = 0)
    THEN XSgn(XSub(x, y))
    ELSE \* two single terms of equal sign: compare the squares by their ratio
         XSgn(x) * QCmp(XSquareRatio(x, y), QInt(1))

XLt(x, y) == XCmp(x, y) < 0

XLe(x, y) == XCmp(x, y) <= 0

XEq(x, y) == XCmp(x, y) = 0

(***************************************************************************)
(* Values.  null / undefined is Null where a number or an object is        *)
(* expected and NullArr where an array is.  A price bar is [date,          *)
(* adjClose]; a JavaScript object used as a map (priceHistory, weights) is *)
(* the sequence of its [key, value] entries in insertion order, keys       *)
(* distinct.                                                               *)
(***************************************************************************)
Null == [null |-> TRUE]

NullArr == <<Null>>

Tickers == {"A", "B", "C"}

Range(f) == {f[i] : i \in DOMAIN f}

Keys(obj) == [i \in DOMAIN obj |-> obj[i].key]

HasKey(obj, k) == \E i \in DOMAIN obj : obj[i].key = k

Get(obj, k) == obj[CHOOSE i \in DOMAIN obj : obj[i].key = k].val

RECURSIVE SumSeq(_)
SumSeq(arr) == IF arr = <<>> THEN XInt(0) ELSE XAdd(arr[1], SumSeq(Tail(arr)))

RECURSIVE SelectIdx(_, _, _)
\* the f(i), for i = from..to in order, that are not Null
SelectIdx(f, from, to) ==
    IF from > to THEN <<>>
    ELSE (IF f[from] = Null THEN <<>> ELSE <<f[from]>>) \o SelectIdx(f, from + 1, to)

(***************************************************************************)
(* RiskAnalysis (src/app/js/calculator/risk-analysis.js)                   *)
(***************************************************************************)
TRADING_DAYS_PER_YEAR == 252

\* confidence levels are rationals; the table is keyed by 0.90, 0.95, 0.99
Z_SCORES ==
    <<[key |-> Q(90, 100), val |-> XMilli(1282)],
      [key |-> Q(95, 100), val |-> XMilli(1645)],
      [key |-> Q(99, 100), val |-> XMilli(2326)]>>

DefaultZ == XMilli(1645)

\* (currPrice - prevPrice) / prevPrice
SimpleReturn(prevPrice, currPrice) ==
    XDiv(XSub(XInt(currPrice), XInt(prevPrice)), XInt(prevPrice))

\* mutant: the loop starts one bar late
calculateDailyReturns_LateStart(prices) ==
    IF prices = NullArr \/ Len(prices) < 2 THEN <<>>
    ELSE LET step == [i \in 3..Len(prices) |->
                        IF prices[i - 1].adjClose > 0
                        THEN SimpleReturn(prices[i - 1].adjClose, prices[i].adjClose)
                        ELSE Null]
         IN  SelectIdx(step, 3, Len(prices))

calculateDailyReturns(prices) ==
    IF prices = NullArr \/ Len(prices) < 2 THEN <<>>
    ELSE LET step == [i \in 2..Len(prices) |->
                        IF prices[i - 1].adjClose > 0
                        THEN SimpleReturn(prices[i - 1].adjClose, prices[i].adjClose)
                        ELSE Null]
         IN  SelectIdx(step, 2, Len(prices))

calculateDailyReturnsWithDates(prices) ==
    IF prices = NullArr \/ Len(prices) < 2 THEN <<>>
    ELSE LET step == [i \in 2..Len(prices) |->
                        IF prices[i - 1].adjClose > 0
                        THEN [date |-> prices[i].date,
                              return |-> SimpleReturn(prices[i - 1].adjClose,
                                                      prices[i].adjClose)]
                        ELSE Null]
         IN  SelectIdx(step, 2, Len(prices))

\* mutant: the check of weights[ticker] === undefined is missing
AssetReturns_NoSkip(history, weights) ==
    [i \in DOMAIN history |->
        [key |-> history[i].key, val |-> calculateDailyReturns(history[i].val)]]

\* mutant: a ticker whose return series is empty is left out
AssetReturns_SkipThin(history, weights) ==
    LET step == [i \in DOMAIN history |->
                    IF ~HasKey(weights, history[i].key) THEN Null
                    ELSE IF calculateDailyReturns(history[i].val) = <<>> THEN Null
                    ELSE [key |-> history[i].key,
                          val |-> calculateDailyReturns(history[i].val)]]
    IN  SelectIdx(step, 1, Len(history))

\* the first loop of calculatePortfolioReturns: the entries of assetReturns
AssetReturns(history, weights) ==
    LET step == [i \in DOMAIN history |->
                    IF ~HasKey(weights, history[i].key) THEN Null
                    ELSE [key |-> history[i].key,
                          val |-> calculateDailyReturns(history[i].val)]]
    IN  SelectIdx(step, 1, Len(history))

\* Infinity is -1
MinLength(assetReturns) ==
    IF assetReturns = <<>> THEN -1
    ELSE CHOOSE m \in {Len(e.val) : e \in Range(assetReturns)} :
            \A e \in Range(assetReturns) : m <= Len(e.val)

calculatePortfolioReturns(history, weights) ==
    Once({Once({LET dayReturn(i) ==
                        SumSeq(SelectIdx([j \in DOMAIN weights |->
                                            IF HasKey(assetReturns, weights[j].key)
                                            THEN XMul(weights[j].val,
                                                      Get(assetReturns, weights[j].key)[i])
                                            ELSE Null],
                                         1, Len(weights)))
                IN  IF minLength = 0 \/ minLength = -1 THEN <<>>
                    ELSE [i \in 1..minLength |-> dayReturn(i)] :
                minLength \in {MinLength(assetReturns)}}) :
          assetReturns \in {AssetReturns(history, weights)}})

mean(arr) ==
    IF arr = NullArr \/ Len(arr) = 0 THEN XInt(0)
    ELSE XDiv(SumSeq(arr), XInt(Len(arr)))

stdDev(arr, mu) ==
    IF arr = NullArr \/ Len(arr) < 2 THEN XInt(0)
    ELSE Once({LET squaredDiffs == [i \in DOMAIN arr |->
                                      Once({XMul(d, d) : d \in {XSub(arr[i], m)}})]
                   variance == XDiv(SumSeq(squaredDiffs), XInt(Len(arr) - 1))
               IN  XSqrt(variance) :
               m \in {IF mu = Null THEN mean(arr) ELSE mu}})

calculateExpectedReturn(portfolioReturns) ==
    Once({[dailyReturn |-> dailyMean,
           annualizedReturn |-> XMul(dailyMean, XInt(TRADING_DAYS_PER_YEAR))] :
          dailyMean \in {mean(portfolioReturns)}})

calculateVolatility(portfolioReturns) ==
    LET dailyMean == mean(portfolioReturns)
    IN  Once({[dailyVolatility |-> dailyStdDev,
               annualizedVolatility |->
                  XMul(dailyStdDev, XSqrt(XInt(TRADING_DAYS_PER_YEAR))),
               dailyVariance |-> XMul(dailyStdDev, dailyStdDev)] :
              dailyStdDev \in {stdDev(portfolioReturns, dailyMean)}})

calculateSharpeRatio(annualizedReturn, annualizedVolatility, riskFreeRate) ==
    IF XIsZero(annualizedVolatility) THEN XInt(0)
    ELSE XDiv(XSub(annualizedReturn, riskFreeRate), annualizedVolatility)

\* mutant: the table lookup is lost, every level gets the fallback
ZScore_AlwaysDefault(confidenceLevel) == DefaultZ

ZScore(confidenceLevel) ==
    IF HasKey(Z_SCORES, confidenceLevel) THEN Get(Z_SCORES, confidenceLevel)
    ELSE DefaultZ

\* mutant: the horizon scales the volatility linearly, not by its square root
calculateVaR_NoSqrt(portfolioValue, dailyVolatility, days, confidenceLevel) ==
    LET z == ZScore(confidenceLevel)
        periodVolatility == XMul(dailyVolatility, XInt(days))
    IN  XMul(XMul(portfolioValue, periodVolatility), z)

calculateVaR(portfolioValue, dailyVolatility, days, confidenceLevel) ==
    LET z == ZScore(confidenceLevel)
        periodVolatility == XMul(dailyVolatility, XSqrt(XInt(days)))
    IN  XMul(XMul(portfolioValue, periodVolatility), z)

\* Map.set(k, v): a new key goes last, an existing key keeps its position
MapSet(map, k, v) ==
    IF HasKey(map, k)
    THEN [i \in DOMAIN map |-> IF map[i].key = k THEN [key |-> k, val |-> v] ELSE map[i]]
    ELSE Append(map, [key |-> k, val |-> v])

RECURSIVE DateMap(_)
\* the Map date -> return filled from a return series in order
DateMap(returns) ==
    IF returns = <<>> THEN <<>>
    ELSE LET last == returns[Len(returns)]
         IN  MapSet(DateMap(SubSeq(returns, 1, Len(returns) - 1)), last.date, last.return)

\* mutant: the values are paired by position in the two maps
Aligned_ByPosition(map1, map2) ==
    [i \in 1..(IF Len(map1) <= Len(map2) THEN Len(map1) ELSE Len(map2)) |->
        [a |-> map1[i].val, b |-> map2[i].val]]

\* the loop over map1 of calculateCorrelation: the pairs on the dates of both
Aligned(map1, map2) ==
    SelectIdx([i \in DOMAIN map1 |->
                IF HasKey(map2, map1[i].key)
                THEN [a |-> map1[i].val, b |-> Get(map2, map1[i].key)]
                ELSE Null],
              1, Len(map1))

\* mutant: the denominator uses the first series twice
calculateCorrelation_OneSided(returns1, returns2) ==
    Once({LET n == Len(aligned)
          IN  IF n < 2 THEN XInt(0)
              ELSE Once({Once({LET sumProduct == SumSeq([i \in 1..n |-> XMul(diff1[i], diff2[i])])
                                   sumSq1 == SumSeq([i \in 1..n |-> XMul(diff1[i], diff1[i])])
                                   sumSq2 == SumSeq([i \in 1..n |-> XMul(diff2[i], diff2[i])])
                               IN  Once({IF XIsZero(denom) THEN XInt(0)
                                         ELSE XDiv(sumProduct, denom) :
                                         denom \in {XSqrt(XMul(sumSq1, sumSq1))}}) :
                               diff1 \in {[i \in 1..n |-> XSub(aligned[i].a, mean1)]},
                               diff2 \in {[i \in 1..n |-> XSub(aligned[i].b, mean2)]}}) :
                         mean1 \in {mean([i \in 1..n |-> aligned[i].a])},
                         mean2 \in {mean([i \in 1..n |-> aligned[i].b])}}) :
          \* the aligned pairs [a, b] = [aligned1[i], aligned2[i]]
          aligned \in {Aligned(DateMap(returns1), DateMap(returns2))}})

calculateCorrelation(returns1, returns2) ==
    Once({LET n == Len(aligned)
          IN  IF n < 2 THEN XInt(0)
              ELSE Once({Once({LET sumProduct == SumSeq([i \in 1..n |-> XMul(diff1[i], diff2[i])])
                                   sumSq1 == SumSeq([i \in 1..n |-> XMul(diff1[i], diff1[i])])
                                   sumSq2 == SumSeq([i \in 1..n |-> XMul(diff2[i], diff2[i])])
                               IN  Once({IF XIsZero(denom) THEN XInt(0)
                                         ELSE XDiv(sumProduct, denom) :
                                         denom \in {XSqrt(XMul(sumSq1, sumSq2))}}) :
                               diff1 \in {[i \in 1..n |-> XSub(aligned[i].a, mean1)]},
                               diff2 \in {[i \in 1..n |-> XSub(aligned[i].b, mean2)]}}) :
                         mean1 \in {mean([i \in 1..n |-> aligned[i].a])},
                         mean2 \in {mean([i \in 1..n |-> aligned[i].b])}}) :
          \* the aligned pairs [a, b] = [aligned1[i], aligned2[i]]
          aligned \in {Aligned(DateMap(returns1), DateMap(returns2))}})

\* [...dates1].filter(d => dates2.has(d)).length
CommonCount(returns1, returns2) ==
    Cardinality({r.date : r \in Range(returns1)} \cap {r.date : r \in Range(returns2)})

\* row i of the matrix, given the rows before it
CorrelationRow(assetReturns, matrix, i) ==
    [j \in 1..Len(assetReturns) |->
        IF i = j THEN XInt(1)
        ELSE IF j < i THEN matrix[j][i]
        ELSE calculateCorrelation(assetReturns[i], assetReturns[j])]

RECURSIVE CorrelationRows(_, _)
\* the matrix after the outer loop has run for rows 1..i
CorrelationRows(assetReturns, i) ==
    IF i = 0 THEN <<>>
    ELSE Once({Append(matrix, CorrelationRow(assetReturns, matrix, i)) :
               matrix \in {CorrelationRows(assetReturns, i - 1)}})

calculateCorrelationMatrix(history) ==
    LET tickers == Keys(history)
        n == Len(tickers)
    IN  IF n = 0 THEN [tickers |-> <<>>, matrix |-> <<>>, commonDates |-> 0]
        ELSE Once({Once({LET minCommonDates ==
                                 IF counts = {} THEN -1
                                 ELSE CHOOSE m \in counts : \A c \in counts : m <= c
                         IN  [tickers |-> tickers,
                              matrix |-> CorrelationRows(assetReturns, n),
                              commonDates |->
                                 IF minCommonDates = -1 THEN 0 ELSE minCommonDates] :
                         counts \in {{CommonCount(assetReturns[i], assetReturns[j]) :
                                        <<i, j>> \in {p \in (1..n) \X (1..n) : p[1] < p[2]}}}}) :
                   assetReturns \in {[i \in 1..n |->
                                        calculateDailyReturnsWithDates(history[i].val)]}})

(***************************************************************************)
(* CalculatorState (src/unnamed/part_001): assets is the sequence of       *)
(* [ticker, weight, currentShares]; config is [targetCash, leverageRate,   *)
(* riskFreeRate], a field never set being Null.                            *)
(***************************************************************************)
getWeights(assets) == [i \in DOMAIN assets |-> [key |-> assets[i].ticker, val |-> assets[i].weight]]

\* x || dflt for a number x: null, undefined and 0 are falsy
OrElse(x, dflt) == IF x = Null \/ XIsZero(x) THEN dflt ELSE x

\* the second half of analyze: the leveraged metrics and the object stored in
\* CalculatorState.results.riskMetrics
Metrics(history, targetCash, leverageRate, riskFreeRate, leveragedValue, portfolioReturns, returnStats, volStats) ==
    Once({[dailyReturn |-> leveragedDailyReturn,
           annualizedReturn |-> leveragedAnnualizedReturn,
           dailyVolatility |-> leveragedDailyVolatility,
           annualizedVolatility |-> leveragedAnnualizedVolatility,
           baseDailyReturn |-> returnStats.dailyReturn,
           baseDailyVolatility |-> volStats.dailyVolatility,
           baseAnnualizedReturn |-> returnStats.annualizedReturn,
           baseAnnualizedVolatility |-> volStats.annualizedVolatility,
           sharpeRatio |-> calculateSharpeRatio(leveragedAnnualizedReturn,
                                                leveragedAnnualizedVolatility,
                                                riskFreeRate),
           riskFreeRate |-> riskFreeRate,
           var95_1d |-> calculateVaR(leveragedValue, leveragedDailyVolatility, 1, Q(95, 100)),
           var99_1d |-> calculateVaR(leveragedValue, leveragedDailyVolatility, 1, Q(99, 100)),
           var95_30d |-> calculateVaR(leveragedValue, leveragedDailyVolatility, 30, Q(95, 100)),
           var99_30d |-> calculateVaR(leveragedValue, leveragedDailyVolatility, 30, Q(99, 100)),
           correlation |-> calculateCorrelationMatrix(history),
           leverageRate |-> leverageRate,
           leveragedValue |-> leveragedValue,
           baseCash |-> targetCash,
           portfolioReturns |-> portfolioReturns,
           dataPoints |-> Len(portfolioReturns)] :
          leveragedDailyReturn \in {XMul(returnStats.dailyReturn, leverageRate)},
          leveragedAnnualizedReturn \in {XMul(returnStats.annualizedReturn, leverageRate)},
          leveragedDailyVolatility \in {XMul(volStats.dailyVolatility, leverageRate)},
          leveragedAnnualizedVolatility \in
              {XMul(volStats.annualizedVolatility, leverageRate)}})

\* a mutant of analyze: VaR is computed from the unleveraged target cash
analyze_UnleveragedVaR(history, assets, config) ==
    Once({IF Len(portfolioReturns) = 0 THEN Null
          ELSE Metrics(history, config.targetCash, leverageRate, riskFreeRate,
                       config.targetCash, portfolioReturns,
                       calculateExpectedReturn(portfolioReturns),
                       calculateVolatility(portfolioReturns)) :
          leverageRate \in {OrElse(config.leverageRate, XInt(1))},
          riskFreeRate \in {OrElse(config.riskFreeRate, XQ(Q(5, 100)))},
          portfolioReturns \in {calculatePortfolioReturns(history, getWeights(assets))}})

\* RiskAnalysis.analyze with the price history given: the metrics, or Null
analyze(history, assets, config) ==
    LET weights == getWeights(assets)
        targetCash == config.targetCash
    IN  Once({IF Len(portfolioReturns) = 0 THEN Null
              ELSE Metrics(history, targetCash, leverageRate, riskFreeRate,
                           XMul(targetCash, leverageRate), portfolioReturns,
                           calculateExpectedReturn(portfolioReturns),
                           calculateVolatility(portfolioReturns)) :
              leverageRate \in {OrElse(config.leverageRate, XInt(1))},
              riskFreeRate \in {OrElse(config.riskFreeRate, XQ(Q(5, 100)))},
              portfolioReturns \in {calculatePortfolioReturns(history, weights)}})

(***************************************************************************)
(* Projection (src/app/js/calculator/risk-analysis.js, second half).       *)
(* The field expectedReturn of a projection is read by no operation        *)
(* modelled here and is left out.                                          *)
(***************************************************************************)
TIME_HORIZONS == <<21, 63, 126, 252>>

\* mutant: the upper bound stays at the expected value
Band_OneSided(expectedValue, width) ==
    [low |-> XSub(expectedValue, width), high |-> expectedValue]

Band(expectedValue, width) ==
    [low |-> XSub(expectedValue, width), high |-> XAdd(expectedValue, width)]

\* expectedValue = baseCash * Math.pow(1 + leveragedDailyReturn, days), with the
\* leveraged rates it is computed from
ExpectedAt(baseCash, leveragedDailyReturn, leveragedDailyStd, days) ==
    <<leveragedDailyReturn, leveragedDailyStd,
      XMul(baseCash, XPow(XAdd(XInt(1), leveragedDailyReturn), days))>>

\* the object returned by Projection.calculate
Projected(baseCash, baseDailyReturn, baseDailyStd, leverageRate, days, leveragedDailyReturn, leveragedDailyStd, expectedValue, projectedStd) ==
    [currentValue |-> baseCash,
     expectedValue |-> expectedValue,
     standardDeviation |-> projectedStd,
     intervals |->
        [p68 |-> Band(expectedValue, projectedStd),
         p95 |-> Band(expectedValue, XMul(XMilli(1960), projectedStd)),
         p99 |-> Band(expectedValue, XMul(XMilli(2576), projectedStd))],
     days |-> days,
     leverageRate |-> leverageRate,
     leveragedDailyReturn |-> leveragedDailyReturn,
     leveragedDailyStd |-> leveragedDailyStd,
     baseDailyReturn |-> baseDailyReturn,
     baseDailyStd |-> baseDailyStd]

\* Projection.calculate; a Null leverageRate takes the default 1; daysArg is
\* <<d>>, or <<>> for an omitted argument, which takes the default 30
calculate(baseCash, baseDailyReturn, baseDailyStd, leverageRateArg, daysArg) ==
    LET leverageRate == IF leverageRateArg = Null THEN XInt(1) ELSE leverageRateArg
        days == IF daysArg = <<>> THEN 30 ELSE daysArg[1]
    IN  Once({Projected(baseCash, baseDailyReturn, baseDailyStd, leverageRate, days,
                        leveragedDailyReturn, leveragedDailyStd, expectedValue,
                        XMul(XMul(expectedValue, leveragedDailyStd), XSqrt(XInt(days)))) :
              <<leveragedDailyReturn, leveragedDailyStd, expectedValue>> \in
                  {ExpectedAt(baseCash, XMul(baseDailyReturn, leverageRate),
                              XMul(baseDailyStd, leverageRate), days)}})

\* Projection.calculateAll: the projections keyed by horizon, or Null
calculateAll(metrics, config) ==
    LET baseCash == config.targetCash
        leverageRate == OrElse(config.leverageRate, XInt(1))
    IN  IF metrics = Null THEN Null
        ELSE [i \in DOMAIN TIME_HORIZONS |->
                [key |-> TIME_HORIZONS[i],
                 val |-> calculate(baseCash, metrics.baseDailyReturn,
                                   metrics.baseDailyVolatility, leverageRate,
                                   <<TIME_HORIZONS[i]>>)]]

Max(a, b) == IF a >= b THEN a ELSE b

\* one iteration of the loop of calculateContinuous, for day d
ContinuousPoint(baseCash, leveragedDailyReturn, leveragedDailyStd, d) ==
    Once({Once({[day |-> d,
                 expected |-> expValue,
                 upper95 |-> XAdd(expValue, XMul(XMilli(1960), std)),
                 lower95 |-> XSub(expValue, XMul(XMilli(1960), std)),
                 upper68 |-> XAdd(expValue, std),
                 lower68 |-> XSub(expValue, std)] :
                std \in {XMul(XMul(expValue, leveragedDailyStd), XSqrt(XInt(Max(d, 1))))}}) :
          expValue \in {XMul(baseCash, XPow(XAdd(XInt(1), leveragedDailyReturn), d))}})

\* Projection.calculateContinuous: the six parallel arrays, or Null
calculateContinuous(metrics, config) ==
    LET baseCash == config.targetCash
    IN  IF metrics = Null THEN Null
        ELSE Once({Once({[days |-> [i \in DOMAIN pt |-> pt[i].day],
                          expected |-> [i \in DOMAIN pt |-> pt[i].expected],
                          upper95 |-> [i \in DOMAIN pt |-> pt[i].upper95],
                          lower95 |-> [i \in DOMAIN pt |-> pt[i].lower95],
                          upper68 |-> [i \in DOMAIN pt |-> pt[i].upper68],
                          lower68 |-> [i \in DOMAIN pt |-> pt[i].lower68]] :
                         pt \in {[i \in 1..(TRADING_DAYS_PER_YEAR + 1) |->
                                    ContinuousPoint(baseCash,
                                                    XMul(metrics.baseDailyReturn, leverageRate),
                                                    XMul(metrics.baseDailyVolatility, leverageRate),
                                                    i - 1)]}}) :
                   leverageRate \in {OrElse(config.leverageRate, XInt(1))}})

(***************************************************************************)
(* Inputs of the model.                                                    *)
(***************************************************************************)
Dates == 1..MaxDate

Prices == 0..MaxPrice

RECURSIVE SortedSeq(_)
\* the elements of a finite set of integers in increasing order
SortedSeq(S) ==
    IF S = {} THEN <<>>
    ELSE LET m == CHOOSE x \in S : \A y \in S : x <= y
         IN  <<m>> \o SortedSeq(S \ {m})

\* price series as the data loader supplies them: dates ascending, no duplicates
SeriesOn(D, P) ==
    LET ds == SortedSeq(D)
    IN  {[i \in DOMAIN ds |-> [date |-> ds[i], adjClose |-> p[i]]] :
            p \in [DOMAIN ds -> P]}

AllSeries == UNION {SeriesOn(D, Prices) : D \in SUBSET Dates}

\* ordered maps over the ticker sequence ts with values from V
MapsOver(ts, V) ==
    {[i \in DOMAIN ts |-> [key |-> ts[i], val |-> v[i]]] : v \in [DOMAIN ts -> V]}

\* the subsequences of a sequence, order kept
RECURSIVE SubSeqs(_)
SubSeqs(ts) ==
    IF ts = <<>> THEN {<<>>}
    ELSE LET rest == SubSeqs(Tail(ts))
         IN  rest \cup {<<ts[1]>> \o r : r \in rest}

WeightValues == {XQ(Q(1, 2)), XInt(1)}

AssetsOver(ts) ==
    {[i \in DOMAIN ts |-> [ticker |-> ts[i], weight |-> w[i], currentShares |-> 0]] :
        w \in [DOMAIN ts -> WeightValues]}

AssetLists(tickers) == UNION {AssetsOver(ts) : ts \in SubSeqs(tickers)}

\* what DataManager.fetchHistoricalPrices can return for the assets: a
\* non-empty series for each ticker whose request succeeded with data, in
\* the order of the assets
FetchedHistories(as) ==
    UNION {MapsOver(ts, AllSeries \ {<<>>}) :
            ts \in SubSeqs([i \in DOMAIN as |-> as[i].ticker])}

\* CalculatorState.config: targetCash is kept >= 0 by setTargetCash
Configs ==
    [targetCash : {XInt(0), XInt(2)},
     lookbackWindow : {252},
     leverageRate : {Null, XInt(3)},
     riskFreeRate : {Null}]

NoCall == [none |-> TRUE]

VARIABLES
    priceHistory,   \* the price history analyze works on (fetchHistoricalPrices)
    assets,         \* CalculatorState.assets
    config,         \* CalculatorState.config
    riskMetrics,    \* CalculatorState.results.riskMetrics
    projections,    \* Projection.projections
    drawdownList,   \* the page's drawdownList element: whether it exists, and its innerHTML
    latestPrices,   \* CalculatorState.prices
    positions,      \* CalculatorState.results.positions
    tradeOrders,    \* CalculatorState.results.tradeOrders
    projection,     \* CalculatorState.results.projection
    appState,       \* App.state
    request,        \* the body of the last request sent to the backend (Null before any)
    toast,          \* the last toast shown (Null before any)
    localStorage,   \* the browser's localStorage: the viewer's and the calculator's item
    fetches,        \* the DataManager.fetchLatestPrices calls in flight
    call,           \* the function last called with its arguments (NoCall before any)
    returned        \* what the last call returned (NoCall before any call)

calcVars == <<latestPrices, positions, tradeOrders, projection>>

appVars == <<appState, request, toast>>

envVars == <<localStorage, fetches>>

vars == <<priceHistory, assets, config, riskMetrics, projections, drawdownList, latestPrices, positions, tradeOrders, projection, appState, request, toast, localStorage, fetches, call, returned>>

stateVars == <<priceHistory, assets, config, riskMetrics, projections, drawdownList, latestPrices, positions, tradeOrders, projection, appState, request, toast, localStorage, fetches>>

\* localStorage without the items of the two pages; full: the quota is used
\* up, setItem throws and the save functions' catch blocks only log it
NoStorage == [viewer |-> Null, calculator |-> Null, full |-> FALSE]

\* App.state as declared
AppStart == [selectedTickers |-> <<>>, weights |-> <<>>, margin |-> Q(1, 1), dateRange |-> [start |-> 0, end |-> 0], subPeriods |-> <<>>, backtestResult |-> Null]

\* the calculator's prices and results as declared, and the viewer as loaded
InitRest ==
    /\ latestPrices = <<>>
    /\ positions = Null
    /\ tradeOrders = Null
    /\ projection = Null
    /\ appState = AppStart
    /\ request = Null
    /\ toast = Null
    /\ localStorage = NoStorage
    /\ fetches = <<>>

\* the calculator as loaded, before any asset is configured
InitState ==
    /\ priceHistory = <<>>
    /\ assets = <<>>
    /\ config = [targetCash |-> XInt(100000), lookbackWindow |-> 252, leverageRate |-> Null, riskFreeRate |-> Null]
    /\ riskMetrics = Null
    /\ projections = <<>>
    /\ drawdownList = [present |-> TRUE, innerHTML |-> <<>>]
    /\ InitRest

(***************************************************************************)
(* SpecRisk: one risk analysis of a configured calculator.                 *)
(***************************************************************************)
InitRisk ==
    /\ priceHistory = <<>>
    /\ assets \in AssetLists(<<"A", "B">>)
    /\ config \in Configs
    /\ riskMetrics = Null
    /\ projections = <<>>
    /\ drawdownList = [present |-> TRUE, innerHTML |-> <<>>]
    /\ InitRest
    /\ call = NoCall
    /\ returned = NoCall

\* RiskAnalysis.analyze(): fetch the price history, compute, store, return
Analyze ==
    /\ call = NoCall
    /\ \E history \in FetchedHistories(assets) :
        LET metrics == analyze(history, assets, config)
        IN  /\ priceHistory' = history
            /\ riskMetrics' = IF metrics = Null THEN riskMetrics ELSE metrics
            /\ call' = [fn |-> "analyze", args |-> <<>>]
            /\ returned' = metrics
            /\ UNCHANGED <<assets, config, projections, drawdownList, calcVars, appVars, envVars>>

NextRisk == Analyze

SpecRisk == InitRisk /\ [][NextRisk]_vars

(***************************************************************************)
(* The functions called on their own: each behaviour makes one call.       *)
(* SpecReturns: the two return-series functions on any price series.       *)
(***************************************************************************)
InitCall == InitState /\ call = NoCall /\ returned = NoCall

CallDailyReturns ==
    /\ call = NoCall
    /\ \E prices \in AllSeries \cup {NullArr} :
        /\ call' = [fn |-> "calculateDailyReturns", args |-> <<prices>>]
        /\ returned' = calculateDailyReturns(prices)
        /\ UNCHANGED stateVars

CallDailyReturnsWithDates ==
    /\ call = NoCall
    /\ \E prices \in AllSeries \cup {NullArr} :
        /\ call' = [fn |-> "calculateDailyReturnsWithDates", args |-> <<prices>>]
        /\ returned' = calculateDailyReturnsWithDates(prices)
        /\ UNCHANGED stateVars

NextReturns == CallDailyReturns \/ CallDailyReturnsWithDates

SpecReturns == InitCall /\ [][NextReturns]_vars

(***************************************************************************)
(* SpecPortfolio: calculatePortfolioReturns on any price history over two  *)
(* tickers, in either insertion order, and any weights.                    *)
(***************************************************************************)
HistoriesOver(tickerSeqs) == UNION {MapsOver(ts, AllSeries) : ts \in tickerSeqs}

WeightMapsOver(tickerSeqs) == UNION {MapsOver(ts, WeightValues) : ts \in tickerSeqs}

CallPortfolioReturns ==
    /\ call = NoCall
    /\ \E history \in HistoriesOver(SubSeqs(<<"A", "B">>) \cup {<<"B", "A">>}),
          weights \in WeightMapsOver(SubSeqs(<<"A", "B">>)) :
        /\ call' = [fn |-> "calculatePortfolioReturns", args |-> <<history, weights>>]
        /\ returned' = calculatePortfolioReturns(history, weights)
        /\ UNCHANGED stateVars

NextPortfolio == CallPortfolioReturns

SpecPortfolio == InitCall /\ [][NextPortfolio]_vars

(***************************************************************************)
(* SpecVaR: calculateVaR on its own.                                       *)
(***************************************************************************)
VaRValues == {XInt(0), XInt(1), XInt(100000)}

Volatilities == {XInt(0), XQ(Q(1, 2)), XSqrtQ(Q(1, 2)), XSqrtQ(Q(9, 8))}

VaRDays == {1, 2, 30}

ConfidenceLevels == {Q(90, 100), Q(95, 100), Q(99, 100), Q(50, 100), Q(975, 1000)}

CallVaR ==
    /\ call = NoCall
    /\ \E value \in VaRValues, sigma \in Volatilities, days \in VaRDays,
          c \in ConfidenceLevels :
        /\ call' = [fn |-> "calculateVaR", args |-> <<value, sigma, days, c>>]
        /\ returned' = calculateVaR(value, sigma, days, c)
        /\ UNCHANGED stateVars

NextVaR == CallVaR

SpecVaR == InitCall /\ [][NextVaR]_vars

(***************************************************************************)
(* SpecCorr: calculateCorrelationMatrix on the price histories of up to    *)
(* two tickers over one more date than Dates (three returns at most), and  *)
(* of three tickers with a positive price on every one of these dates.     *)
(***************************************************************************)
CorrDates == 1..(MaxDate + 1)

CorrSeries == UNION {SeriesOn(D, Prices) : D \in SUBSET CorrDates}

FullCorrSeries == SeriesOn(CorrDates, Prices \ {0})

\* the series a history over the ticker sequence ts draws from
CorrSeriesFor(ts) == IF Len(ts) <= 2 THEN CorrSeries ELSE FullCorrSeries

CallCorrelationMatrix ==
    /\ call = NoCall
    /\ \E ts \in {<<>>, <<"A">>, <<"A", "B">>, <<"C", "A", "B">>} :
        \E history \in MapsOver(ts, CorrSeriesFor(ts)) :
            /\ call' = [fn |-> "calculateCorrelationMatrix", args |-> <<history>>]
            /\ returned' = calculateCorrelationMatrix(history)
            /\ UNCHANGED stateVars

NextCorr == CallCorrelationMatrix

SpecCorr == InitCall /\ [][NextCorr]_vars

(***************************************************************************)
(* SpecCalc: Projection.calculate on its own.                              *)
(***************************************************************************)
CalcCash == {XInt(0), XInt(1), XInt(100000)}

CalcReturns == {XQ(Q(-1, 2)), XInt(0), XQ(Q(1, 4))}

CalcLeverage == {Null, XInt(1), XInt(3)}

CalcDays == {0, 1, 2, 21}

CallCalculate ==
    /\ call = NoCall
    /\ \E baseCash \in CalcCash, mu \in CalcReturns, sigma \in Volatilities,
          L \in CalcLeverage, d \in CalcDays, given \in BOOLEAN :
        LET days == IF given THEN <<d>> ELSE <<>>
        IN  /\ call' = [fn |-> "calculate", args |-> <<baseCash, mu, sigma, L, days>>]
            /\ returned' = calculate(baseCash, mu, sigma, L, days)
            /\ UNCHANGED stateVars

NextCalc == CallCalculate

SpecCalc == InitCall /\ [][NextCalc]_vars

(***************************************************************************)
(* SpecProj: the projections of a calculator with one asset: a risk        *)
(* analysis, Projection.calculateAll and Projection.calculateContinuous.   *)
(***************************************************************************)
InitProj ==
    /\ priceHistory = <<>>
    /\ assets \in AssetsOver(<<"A">>)
    /\ config \in Configs
    /\ riskMetrics = Null
    /\ projections = <<>>
    /\ drawdownList = [present |-> TRUE, innerHTML |-> <<>>]
    /\ InitRest
    /\ call = NoCall
    /\ returned = NoCall

\* Projection.calculateAll()
CalculateAll ==
    LET all == calculateAll(riskMetrics, config)
    IN  /\ call # NoCall => call.fn = "analyze"
        /\ projections' = IF all = Null THEN projections ELSE all
        /\ call' = [fn |-> "calculateAll", args |-> <<>>]
        /\ returned' = all
        /\ UNCHANGED <<priceHistory, assets, config, riskMetrics, drawdownList, calcVars, appVars, envVars>>

\* Projection.calculateContinuous()
CalculateContinuous ==
    /\ call # NoCall => call.fn \in {"analyze", "calculateAll"}
    /\ call' = [fn |-> "calculateContinuous", args |-> <<>>]
    /\ returned' = calculateContinuous(riskMetrics, config)
    /\ UNCHANGED stateVars

NextProj == Analyze \/ CalculateAll \/ CalculateContinuous

SpecProj == InitProj /\ [][NextProj]_vars

(***************************************************************************)
(* Properties.                                                             *)
(***************************************************************************)
Called(fn) == call # NoCall /\ call.fn = fn

KeySet(obj) == {obj[i].key : i \in DOMAIN obj}

\* the entries of a map whose key is in K, order kept
Restrict(obj, K) ==
    SelectIdx([i \in DOMAIN obj |-> IF obj[i].key \in K THEN obj[i] ELSE Null], 1, Len(obj))

\* the indices i >= 2 of a price series whose prior price is positive, ascending
KeptIndices(prices) ==
    SortedSeq({i \in 2..Len(prices) : prices[i - 1].adjClose > 0})

\* (p[i] - p[i-1]) / p[i-1] as a rational
ReturnAt(prices, i) ==
    XQ(Q(prices[i].adjClose - prices[i - 1].adjClose, prices[i - 1].adjClose))

\* C5: calculateDailyReturns and calculateDailyReturnsWithDates return, in
\* input order, exactly the simple return of each index whose prior price is
\* positive (with its date, for the second); with all prices positive that is
\* length - 1 returns; fewer than 2 bars or null give the empty sequence.
C5_DailyReturns ==
    (Called("calculateDailyReturns") \/ Called("calculateDailyReturnsWithDates")) =>
        LET prices == call.args[1]
            kept == KeptIndices(prices)
        IN  IF prices = NullArr \/ Len(prices) < 2 THEN returned = <<>>
            ELSE /\ Len(returned) = Len(kept)
                 /\ \A k \in DOMAIN kept :
                        returned[k] =
                            IF call.fn = "calculateDailyReturns"
                            THEN ReturnAt(prices, kept[k])
                            ELSE [date |-> prices[kept[k]].date,
                                  return |-> ReturnAt(prices, kept[k])]
                 /\ (\A i \in DOMAIN prices : prices[i].adjClose > 0)
                        => Len(returned) = Len(prices) - 1

\* a three-bar series whose first price is 0: one return dropped, one kept
C5_Witness ==
    /\ Called("calculateDailyReturnsWithDates")
    /\ call.args[1] # NullArr
    /\ Len(call.args[1]) = 3
    /\ call.args[1][1].adjClose = 0
    /\ call.args[1][2].adjClose > 0
    /\ Len(returned) = 1
    /\ returned[1].date = call.args[1][3].date

\* the return of a dated return series on date d
ReturnOn(returns, d) == (CHOOSE r \in Range(returns) : r.date = d).return

\* the portfolio returns paired by calendar date: over the dates common to
\* all weighted tickers that have a price history, the weighted sum of the
\* returns of that date
DateAlignedReturns(history, weights) ==
    LET present == KeySet(history) \cap KeySet(weights)
        dated(t) == calculateDailyReturnsWithDates(Get(history, t))
        common == {d \in Dates : \A t \in present : \E r \in Range(dated(t)) : r.date = d}
        ds == SortedSeq(common)
        own == Restrict(weights, present)
    IN  IF present = {} THEN <<>>
        ELSE [k \in DOMAIN ds |->
                SumSeq([j \in DOMAIN own |->
                            XMul(own[j].val, ReturnOn(dated(own[j].key), ds[k]))])]

\* C2: every element of calculatePortfolioReturns is the weighted sum of the
\* returns of one and the same calendar date, over exactly the dates common to
\* all weighted tickers.
C2_PairedByDate ==
    Called("calculatePortfolioReturns") =>
        returned = DateAlignedReturns(call.args[1], call.args[2])

\* C4: a weighted ticker without an entry in priceHistory is skipped (the
\* result is that of the weights without it), a priceHistory ticker without a
\* weight is ignored (the result is that of the history without it), and the
\* remaining weights are used as given: with one ticker remaining the result
\* is its weight times its own returns.
C4_MissingTickerSkipped ==
    Called("calculatePortfolioReturns") =>
        LET history == call.args[1]
            weights == call.args[2]
            present == KeySet(history) \cap KeySet(weights)
        IN  /\ returned = calculatePortfolioReturns(history, Restrict(weights, present))
            /\ returned = calculatePortfolioReturns(Restrict(history, present), weights)
            /\ Cardinality(present) = 1 =>
                LET t == CHOOSE t \in present : TRUE
                    r == calculateDailyReturns(Get(history, t))
                IN  returned = [i \in DOMAIN r |-> XMul(Get(weights, t), r[i])]

\* B is weighted but has no history, A has weight 1/2 and two returns
C4_Witness ==
    /\ Called("calculatePortfolioReturns")
    /\ KeySet(call.args[2]) = {"A", "B"}
    /\ KeySet(call.args[1]) = {"A"}
    /\ Get(call.args[2], "A") = XQ(Q(1, 2))
    /\ Len(returned) = 2
    /\ ~XIsZero(returned[1])

(***************************************************************************)
(* Properties of the risk analysis (SpecRisk).                             *)
(***************************************************************************)
Analyzed == Called("analyze") /\ returned # Null

WithLeverage(L) == [config EXCEPT !.leverageRate = XInt(L)]

\* C1: for the price history, weights, target cash and risk-free rate of an
\* analysis, analyze returns the same sharpeRatio at leverageRate 1 and 3.
C1_SharpeLeverageInvariant ==
    Analyzed =>
        XEq(analyze(priceHistory, assets, WithLeverage(1)).sharpeRatio,
            analyze(priceHistory, assets, WithLeverage(3)).sharpeRatio)

\* a series with a bar on every date and all prices positive
FullSeries(prices) ==
    Len(prices) = MaxDate /\ \A i \in DOMAIN prices : prices[i].adjClose > 0

\* one weighted ticker came with fewer than 2 bars, another with a full history
ThinAndFull ==
    /\ Called("analyze")
    /\ \E i, j \in DOMAIN priceHistory :
        /\ HasKey(getWeights(assets), priceHistory[i].key)
        /\ HasKey(getWeights(assets), priceHistory[j].key)
        /\ Len(priceHistory[i].val) < 2
        /\ FullSeries(priceHistory[j].val)

Zero == XInt(0)

\* C8: every VaR analyze reports is >= 0, and with positive daily volatility
\* and portfolio value VaR grows strictly with the horizon and the confidence.
C8_VaRMonotone ==
    Analyzed =>
        /\ \A v \in {returned.var95_1d, returned.var99_1d,
                     returned.var95_30d, returned.var99_30d} : XLe(Zero, v)
        /\ (XLt(Zero, returned.dailyVolatility) /\ XLt(Zero, returned.leveragedValue)) =>
            /\ XLt(returned.var95_1d, returned.var95_30d)
            /\ XLt(returned.var99_1d, returned.var99_30d)
            /\ XLt(returned.var95_1d, returned.var99_1d)
            /\ XLt(returned.var95_30d, returned.var99_30d)

\* an analysis at leverage 3 of a position with positive value and volatility
C8_Witness ==
    /\ Analyzed
    /\ returned.leverageRate = XInt(3)
    /\ XLt(Zero, returned.dailyVolatility)
    /\ XLt(Zero, returned.leveragedValue)
    /\ XLt(Zero, returned.var95_1d)

(***************************************************************************)
(* Properties of calculateVaR (SpecVaR).                                   *)
(***************************************************************************)
\* the z-score the documentation gives for a confidence level
DocumentedZ(c) ==
    CASE c = Q(90, 100) -> XMilli(1282)
      [] c = Q(95, 100) -> XMilli(1645)
      [] c = Q(99, 100) -> XMilli(2326)
      [] OTHER -> XMilli(1645)

\* C9: calculateVaR returns portfolioValue * dailyVolatility * sqrt(days) * z
\* with z = 1.282, 1.645, 2.326 for the levels 0.90, 0.95, 0.99 and 1.645 for
\* every other level.
C9_VaRFormula ==
    Called("calculateVaR") =>
        LET value == call.args[1]
            sigma == call.args[2]
            days == call.args[3]
            z == DocumentedZ(call.args[4])
        IN  XEq(returned, XMul(XMul(XMul(value, sigma), XSqrtQ(QInt(days))), z))

\* 100000 at a daily volatility of 1/2 over 30 days at the unlisted level
\* 0.975: 100000 * 0.5 * sqrt(30) * 1.645
C9_Witness ==
    /\ Called("calculateVaR")
    /\ call.args = <<XInt(100000), XQ(Q(1, 2)), 30, Q(975, 1000)>>
    /\ XEq(returned, XMul(XInt(82250), XSqrtQ(QInt(30))))

(***************************************************************************)
(* Properties of calculateCorrelationMatrix (SpecCorr).                    *)
(***************************************************************************)
\* C10: the matrix is n x n over the tickers of the history in their order,
\* entry (i, j) being the correlation of ticker i with ticker j; the diagonal
\* is exactly 1, the matrix is symmetric, every other entry lies in [-1, 1];
\* an empty history gives empty tickers, an empty matrix and commonDates 0.
C10_CorrelationMatrix ==
    Called("calculateCorrelationMatrix") =>
        LET history == call.args[1]
            n == Len(history)
            m == returned.matrix
            dated(i) == calculateDailyReturnsWithDates(history[i].val)
        IN  /\ returned.tickers = Keys(history)
            /\ Len(m) = n
            /\ \A i \in 1..n : Len(m[i]) = n /\ m[i][i] = XInt(1)
            /\ \A i, j \in 1..n : m[i][j] = m[j][i]
            /\ \A i, j \in 1..n :
                i < j => /\ m[i][j] = calculateCorrelation(dated(i), dated(j))
                         /\ XLe(XInt(-1), m[i][j])
                         /\ XLe(m[i][j], XInt(1))
            /\ history = <<>> =>
                returned = [tickers |-> <<>>, matrix |-> <<>>, commonDates |-> 0]

\* three tickers, two of them correlated strictly between 0 and 1
C10_Witness ==
    /\ Called("calculateCorrelationMatrix")
    /\ returned.tickers = <<"C", "A", "B">>
    /\ returned.commonDates = MaxDate
    /\ \E i, j \in 1..3 :
        /\ i # j
        /\ XLt(Zero, returned.matrix[i][j])
        /\ XLt(returned.matrix[i][j], XInt(1))

(***************************************************************************)
(* Properties of Projection.calculate (SpecCalc).                          *)
(***************************************************************************)
RECURSIVE PowQ(_, _)
\* q^n by repeated multiplication
PowQ(q, n) == IF n = 0 THEN QInt(1) ELSE QMul(q, PowQ(q, n - 1))

\* an exact real with its power multiplied out
Expand(x) ==
    XNorm(QInt(1), 0, QMul(PowQ(x.b, x.e), x.k), QMul(PowQ(x.b, x.e), x.s), x.r)

\* the leverage and the horizon of a call of calculate, defaults applied
CalcLeverageUsed == IF call.args[4] = Null THEN XInt(1) ELSE call.args[4]

CalcDaysUsed == IF call.args[5] = <<>> THEN 30 ELSE call.args[5][1]

\* the projection's z-multiples of the deviation
IntervalWidths ==
    <<[band |-> returned.intervals.p68, c |-> XInt(1)],
      [band |-> returned.intervals.p95, c |-> XMilli(1960)],
      [band |-> returned.intervals.p99, c |-> XMilli(2576)]>>

\* expectedValue = baseCash (1 + mu L)^d, standardDeviation = expectedValue *
\* sigma L sqrt(d), every interval expectedValue -/+ c * standardDeviation and
\* so centred on expectedValue
CalcFormulas ==
    LET baseCash == call.args[1]
        growth == XAdd(XInt(1), XMul(call.args[2], CalcLeverageUsed))
        sigmaL == XMul(call.args[3], CalcLeverageUsed)
        d == CalcDaysUsed
        ev == returned.expectedValue
        sd == returned.standardDeviation
    IN  /\ ev = XMul(baseCash, XPow(growth, d))
        /\ d <= 2 => Expand(ev) = XMul(baseCash, XQ(PowQ(growth.k, d)))
        /\ XEq(sd, XMul(XMul(ev, sigmaL), XSqrtQ(QInt(d))))
        /\ \A i \in DOMAIN IntervalWidths :
            LET w == IntervalWidths[i]
            IN  /\ XEq(w.band.low, XSub(ev, XMul(w.c, sd)))
                /\ XEq(w.band.high, XAdd(ev, XMul(w.c, sd)))
                /\ XEq(XAdd(w.band.low, w.band.high), XMul(XInt(2), ev))

\* low <= high in every interval, and p68 within p95 within p99
CalcOrdered ==
    LET p68 == returned.intervals.p68
        p95 == returned.intervals.p95
        p99 == returned.intervals.p99
    IN  /\ XLe(p68.low, p68.high) /\ XLe(p95.low, p95.high) /\ XLe(p99.low, p99.high)
        /\ XLe(p95.low, p68.low) /\ XLe(p68.high, p95.high)
        /\ XLe(p99.low, p95.low) /\ XLe(p95.high, p99.high)

CalcNonNegative == XLe(Zero, call.args[3]) /\ XLe(Zero, CalcLeverageUsed)

\* C6 as claimed: the formulas hold and, for a non-negative sigma and leverage,
\* every interval has low <= high and p68, p95, p99 are nested.
C6_OrderedForNonNegative ==
    Called("calculate") => (CalcFormulas /\ (CalcNonNegative => CalcOrdered))

\* C6 as amended: the formulas hold and, for a non-negative sigma, leverage
\* and expectedValue, every interval has low <= high and p68, p95, p99 are
\* nested.
C6_OrderedForNonNegativeValue ==
    Called("calculate") =>
        /\ CalcFormulas
        /\ (CalcNonNegative /\ XLe(Zero, returned.expectedValue)) => CalcOrdered

\* 100000 at mu = 1/4, sigma = sqrt(9/8), leverage 3 over 21 days: the three
\* intervals are strictly nested
C6_Witness ==
    /\ Called("calculate")
    /\ call.args = <<XInt(100000), XQ(Q(1, 4)), XSqrtQ(Q(9, 8)), XInt(3), <<21>>>>
    /\ XLt(Zero, returned.expectedValue)
    /\ XLt(returned.intervals.p99.low, returned.intervals.p95.low)
    /\ XLt(returned.intervals.p95.low, returned.intervals.p68.low)
    /\ XLt(returned.intervals.p68.low, returned.intervals.p68.high)

(***************************************************************************)
(* Properties of the projections (SpecProj).                               *)
(***************************************************************************)
\* Projection.calculate for the stored metrics and configuration at horizon d
ProjectionAt(d) ==
    calculate(config.targetCash, riskMetrics.baseDailyReturn,
              riskMetrics.baseDailyVolatility, OrElse(config.leverageRate, XInt(1)), <<d>>)

\* C7: calculateContinuous emits the 253 days 0..252 and at every day d, 0
\* included, its expected value and 68% and 95% bands are those of
\* Projection.calculate for the horizon d; calculateAll produces exactly the
\* horizons 21, 63, 126, 252.
C7_ContinuousMatchesCalculate ==
    /\ (Called("calculateContinuous") /\ returned # Null) =>
        /\ returned.days = [i \in 1..253 |-> i - 1]
        /\ \A i \in 1..253 :
            LET p == ProjectionAt(i - 1)
            IN  /\ XEq(returned.expected[i], p.expectedValue)
                /\ XEq(returned.lower68[i], p.intervals.p68.low)
                /\ XEq(returned.upper68[i], p.intervals.p68.high)
                /\ XEq(returned.lower95[i], p.intervals.p95.low)
                /\ XEq(returned.upper95[i], p.intervals.p95.high)
    /\ (Called("calculateAll") /\ returned # Null) =>
        /\ Keys(returned) = <<21, 63, 126, 252>>
        /\ \A i \in DOMAIN returned : returned[i].val = ProjectionAt(returned[i].key)

(***************************************************************************)
(* SpecPearson: calculateCorrelation on two dated return series, the       *)
(* entries of a series listed in any order of their dates.                 *)
(***************************************************************************)
ReturnValues == {XQ(Q(-1, 2)), XInt(0), XInt(1)}

\* the listings of the elements of a set, each element once
Orderings(S) ==
    {f \in [1..Cardinality(S) -> S] : \A i, j \in DOMAIN f : i # j => f[i] # f[j]}

DatedReturns ==
    UNION {{[i \in DOMAIN o |-> [date |-> o[i], return |-> v[i]]] :
                v \in [DOMAIN o -> ReturnValues]} :
           o \in UNION {Orderings(D) : D \in SUBSET Dates}}

CallCorrelation ==
    /\ call = NoCall
    /\ \E returns1 \in DatedReturns, returns2 \in DatedReturns :
        /\ call' = [fn |-> "calculateCorrelation", args |-> <<returns1, returns2>>]
        /\ returned' = calculateCorrelation(returns1, returns2)
        /\ UNCHANGED stateVars

NextPearson == CallCorrelation

SpecPearson == InitCall /\ [][NextPearson]_vars

(***************************************************************************)
(* Properties of calculateCorrelation (SpecPearson).                       *)
(***************************************************************************)
DatesOf(returns) == {r.date : r \in Range(returns)}

\* the Pearson coefficient of two dated series over the dates of both, in
\* the form (n Sxy - Sx Sy) / sqrt((n Sxx - Sx^2)(n Syy - Sy^2)); 0 with fewer
\* than 2 common dates or a constant series
PearsonOn(returns1, returns2) ==
    LET ds == SortedSeq(DatesOf(returns1) \cap DatesOf(returns2))
        n == Len(ds)
        x == [i \in 1..n |-> ReturnOn(returns1, ds[i])]
        y == [i \in 1..n |-> ReturnOn(returns2, ds[i])]
        Sx == SumSeq(x)
        Sy == SumSeq(y)
        Sxy == SumSeq([i \in 1..n |-> XMul(x[i], y[i])])
        Sxx == SumSeq([i \in 1..n |-> XMul(x[i], x[i])])
        Syy == SumSeq([i \in 1..n |-> XMul(y[i], y[i])])
        num == XSub(XMul(XInt(n), Sxy), XMul(Sx, Sy))
        vx == XSub(XMul(XInt(n), Sxx), XMul(Sx, Sx))
        vy == XSub(XMul(XInt(n), Syy), XMul(Sy, Sy))
    IN  IF n < 2 \/ XIsZero(vx) \/ XIsZero(vy) THEN XInt(0)
        ELSE XDiv(num, XSqrt(XMul(vx, vy)))

\* the entries of a dated series on the dates in D, listed by ascending date
ByDateOn(returns, D) ==
    LET ds == SortedSeq(DatesOf(returns) \cap D)
    IN  [i \in DOMAIN ds |-> [date |-> ds[i], return |-> ReturnOn(returns, ds[i])]]

\* C11: calculateCorrelation is the Pearson coefficient over exactly the
\* dates of both series, values paired by date: it is unchanged when the
\* dates outside the common ones are dropped and the entries are listed by
\* date, and it is 0 with fewer than 2 common dates or a constant aligned
\* series.
C11_PearsonByDate ==
    Called("calculateCorrelation") =>
        LET returns1 == call.args[1]
            returns2 == call.args[2]
            common == DatesOf(returns1) \cap DatesOf(returns2)
        IN  /\ XEq(returned, PearsonOn(returns1, returns2))
            /\ returned = calculateCorrelation(ByDateOn(returns1, common),
                                               ByDateOn(returns2, common))
            /\ returned = calculateCorrelation(returns1, ByDateOn(returns2, common))
            /\ Cardinality(common) < 2 => returned = XInt(0)

\* the first series lists its three dates in descending order, the second
\* has only two of them, and the coefficient is -1 over these two
C11_Witness ==
    /\ Called("calculateCorrelation")
    /\ Len(call.args[1]) = 3
    /\ call.args[1][1].date > call.args[1][2].date
    /\ call.args[1][2].date > call.args[1][3].date
    /\ Len(call.args[2]) = 2
    /\ DatesOf(call.args[2]) \subseteq DatesOf(call.args[1])
    /\ returned = XInt(-1)

(***************************************************************************)
(* App.calculateDrawdowns (app.js): the drawdown episodes of an equity     *)
(* curve.  A point of the curve is [date, value]; dates are day numbers,   *)
(* values positive integers; an episode's drawdown is an exact rational.   *)
(* recoveryDate is NoDate (null) or <<date>>.                              *)
(***************************************************************************)
MaxCurve == 6

NoDate == <<>>

\* dd < -0.01
DRAWDOWN_THRESHOLD == Q(-1, 100)

\* 1000 * 60 * 60 * 24
MS_PER_DAY == 86400000

\* new Date(date).getTime() of a day number
getTime(date) == date * MS_PER_DAY

\* the loop's variables before the first iteration
DrawdownStart(equityCurve) == [drawdowns |-> <<>>, peak |-> equityCurve[1].value, peakDate |-> equityCurve[1].date, inDrawdown |-> FALSE, currentDrawdown |-> Null]

\* a mutant of DrawdownStep: an episode opens at a drawdown of exactly 1% too
DrawdownStep_OpenAtOnePercent(st, point) ==
    IF point.value > st.peak
    THEN IF st.inDrawdown /\ st.currentDrawdown # Null
         THEN [drawdowns |-> Append(st.drawdowns, [st.currentDrawdown EXCEPT !.recoveryDate = <<point.date>>]), peak |-> point.value, peakDate |-> point.date, inDrawdown |-> FALSE, currentDrawdown |-> Null]
         ELSE [st EXCEPT !.peak = point.value, !.peakDate = point.date]
    ELSE LET dd == Q(point.value - st.peak, st.peak)
         IN  IF ~st.inDrawdown /\ QCmp(dd, DRAWDOWN_THRESHOLD) <= 0
             THEN [st EXCEPT !.inDrawdown = TRUE, !.currentDrawdown = [peakDate |-> st.peakDate, peakValue |-> st.peak, troughDate |-> point.date, troughValue |-> point.value, drawdown |-> dd, duration |-> 0, recoveryDate |-> NoDate]]
             ELSE IF st.inDrawdown /\ QCmp(dd, st.currentDrawdown.drawdown) < 0
                  THEN [st EXCEPT !.currentDrawdown = [@ EXCEPT !.troughDate = point.date, !.troughValue = point.value, !.drawdown = dd]]
                  ELSE st

\* a mutant of DrawdownStep: the trough stays where the episode opened
DrawdownStep_FirstTrough(st, point) ==
    IF point.value > st.peak
    THEN IF st.inDrawdown /\ st.currentDrawdown # Null
         THEN [drawdowns |-> Append(st.drawdowns, [st.currentDrawdown EXCEPT !.recoveryDate = <<point.date>>]), peak |-> point.value, peakDate |-> point.date, inDrawdown |-> FALSE, currentDrawdown |-> Null]
         ELSE [st EXCEPT !.peak = point.value, !.peakDate = point.date]
    ELSE LET dd == Q(point.value - st.peak, st.peak)
         IN  IF ~st.inDrawdown /\ QCmp(dd, DRAWDOWN_THRESHOLD) < 0
             THEN [st EXCEPT !.inDrawdown = TRUE, !.currentDrawdown = [peakDate |-> st.peakDate, peakValue |-> st.peak, troughDate |-> point.date, troughValue |-> point.value, drawdown |-> dd, duration |-> 0, recoveryDate |-> NoDate]]
             ELSE st

\* one iteration of the loop over equityCurve[1..]
DrawdownStep(st, point) ==
    IF point.value > st.peak
    THEN IF st.inDrawdown /\ st.currentDrawdown # Null
         THEN [drawdowns |-> Append(st.drawdowns, [st.currentDrawdown EXCEPT !.recoveryDate = <<point.date>>]), peak |-> point.value, peakDate |-> point.date, inDrawdown |-> FALSE, currentDrawdown |-> Null]
         ELSE [st EXCEPT !.peak = point.value, !.peakDate = point.date]
    ELSE LET dd == Q(point.value - st.peak, st.peak)
         IN  IF ~st.inDrawdown /\ QCmp(dd, DRAWDOWN_THRESHOLD) < 0
             THEN [st EXCEPT !.inDrawdown = TRUE, !.currentDrawdown = [peakDate |-> st.peakDate, peakValue |-> st.peak, troughDate |-> point.date, troughValue |-> point.value, drawdown |-> dd, duration |-> 0, recoveryDate |-> NoDate]]
             ELSE IF st.inDrawdown /\ QCmp(dd, st.currentDrawdown.drawdown) < 0
                  THEN [st EXCEPT !.currentDrawdown = [@ EXCEPT !.troughDate = point.date, !.troughValue = point.value, !.drawdown = dd]]
                  ELSE st

RECURSIVE DrawdownScan(_, _, _)
\* for (let i = 1; i < equityCurve.length; i++)
DrawdownScan(st, equityCurve, i) ==
    IF i > Len(equityCurve) THEN st ELSE DrawdownScan(DrawdownStep(st, equityCurve[i]), equityCurve, i + 1)

\* the episodes after the loop, an open one added last
DrawdownsFound(st) ==
    IF st.inDrawdown /\ st.currentDrawdown # Null THEN Append(st.drawdowns, st.currentDrawdown) ELSE st.drawdowns

\* Math.round((troughTime - peakTime) / (1000 * 60 * 60 * 24)) of times that are whole days
DurationDays(dd) == (getTime(dd.troughDate) - getTime(dd.peakDate)) \div MS_PER_DAY

calculateDrawdowns(equityCurve) ==
    LET drawdowns == DrawdownsFound(DrawdownScan(DrawdownStart(equityCurve), equityCurve, 2))
    IN  [i \in DOMAIN drawdowns |-> [drawdowns[i] EXCEPT !.duration = DurationDays(drawdowns[i])]]

(***************************************************************************)
(* SpecDrawdowns: calculateDrawdowns on one equity curve.                  *)
(***************************************************************************)
\* the date of the i-th trading day: five trading days, then a weekend
DayOf(i) == i + 2 * ((i - 1) \div 5)

CurveValues == {90, 99, 100, 110, 120}

CurveOf(values) == [i \in DOMAIN values |-> [date |-> DayOf(i), value |-> values[i]]]

ExampleCurve == CurveOf(<<100, 110, 95, 90, 105, 120>>)

DrawdownCurves == {ExampleCurve} \cup UNION {{CurveOf(values) : values \in [1..n -> CurveValues]} : n \in 1..MaxCurve}

CallDrawdowns ==
    /\ call = NoCall
    /\ \E equityCurve \in DrawdownCurves :
        /\ call' = [fn |-> "calculateDrawdowns", args |-> <<equityCurve>>]
        /\ returned' = calculateDrawdowns(equityCurve)
        /\ UNCHANGED stateVars

NextDrawdowns == CallDrawdowns

SpecDrawdowns == InitCall /\ [][NextDrawdowns]_vars

\* the largest value among the first i points
RunningPeak(curve, i) == CHOOSE v \in {curve[j].value : j \in 1..i} : \A j \in 1..i : curve[j].value <= v

\* point i is more than 1% below the running peak
BelowPeak(curve, i) == 100 * curve[i].value < 99 * RunningPeak(curve, i)

\* the first point from `from` on that is more than 1% below the running peak, 0 if none
FirstBelowFrom(curve, from) ==
    LET below == {i \in from..Len(curve) : BelowPeak(curve, i)}
    IN  IF below = {} THEN 0 ELSE CHOOSE i \in below : \A j \in below : i <= j

\* the position of an episode's recovery point: past the end if it has none, 0 if its date is not a date of the curve
RecoveryIndex(curve, episode) ==
    IF episode.recoveryDate = NoDate THEN Len(curve) + 1
    ELSE IF \E i \in DOMAIN curve : curve[i].date = episode.recoveryDate[1] THEN CHOOSE i \in DOMAIN curve : curve[i].date = episode.recoveryDate[1]
    ELSE 0

\* where the scan is free to open episode k: after the recovery of episode k - 1
FreeFrom(curve, episodes, k) == IF k = 1 THEN 1 ELSE RecoveryIndex(curve, episodes[k - 1])

\* episode k opens at the first point more than 1% below the running peak after the
\* previous recovery, stays open while the value does not exceed that peak, and
\* its recovery point is the first later point above that peak
EpisodeScanned(curve, episodes, k) ==
    LET open == FirstBelowFrom(curve, FreeFrom(curve, episodes, k))
        recovery == RecoveryIndex(curve, episodes[k])
    IN  /\ open # 0
        /\ open < recovery
        /\ \A j \in open..(recovery - 1) : curve[j].value <= RunningPeak(curve, open)
        /\ recovery <= Len(curve) => curve[recovery].value > RunningPeak(curve, open)
        /\ episodes[k].recoveryDate = NoDate => k = Len(episodes)

\* C12: calculateDrawdowns opens an episode only at a point more than 1% below
\* the running peak, has at most one episode open at a time (an episode opens
\* only after the previous one closed), keeps it open while the value does not
\* exceed that peak, and sets recoveryDate to the date of the first later point
\* above the peak; only the last episode returned can have recoveryDate null,
\* and then no later point exceeds the peak.
C12_EpisodesScanned ==
    Called("calculateDrawdowns") =>
        LET curve == call.args[1]
        IN  /\ \A k \in DOMAIN returned : EpisodeScanned(curve, returned, k)
            /\ FirstBelowFrom(curve, FreeFrom(curve, returned, Len(returned) + 1)) = 0

\* a curve with a recovered episode followed by one still open at the end
C12_Witness ==
    /\ Called("calculateDrawdowns")
    /\ Len(returned) = 2
    /\ returned[1].recoveryDate # NoDate
    /\ returned[2].recoveryDate = NoDate

\* the position of the point with this date, 0 if there is none
IndexOf(curve, date) ==
    IF \E i \in DOMAIN curve : curve[i].date = date THEN CHOOSE i \in DOMAIN curve : curve[i].date = date ELSE 0

\* the smallest value among the points from..to
LowestValue(curve, from, to) == CHOOSE v \in {curve[j].value : j \in from..to} : \A j \in from..to : v <= curve[j].value

\* the peak, trough and drawdown recorded in an episode
EpisodeMeasured(curve, episode) ==
    LET peakAt == IndexOf(curve, episode.peakDate)
        troughAt == IndexOf(curve, episode.troughDate)
        recovery == RecoveryIndex(curve, episode)
    IN  /\ 0 < peakAt /\ peakAt < troughAt /\ troughAt < recovery
        /\ curve[peakAt].value = episode.peakValue
        /\ episode.peakValue = RunningPeak(curve, troughAt)
        /\ \A j \in 1..(peakAt - 1) : curve[j].value < episode.peakValue
        /\ curve[troughAt].value = episode.troughValue
        /\ episode.troughValue = LowestValue(curve, peakAt, recovery - 1)
        /\ 100 * (episode.troughValue - episode.peakValue) < -episode.peakValue
        /\ episode.drawdown.n * episode.peakValue = (episode.troughValue - episode.peakValue) * episode.drawdown.d

\* C13: in every episode returned by calculateDrawdowns peakValue is the largest
\* value up to the trough, recorded at the first date it was reached,
\* troughValue is the smallest value from that peak to the point before the
\* recovery (or to the end of the curve), drawdown is
\* (troughValue - peakValue) / peakValue and is below -0.01, and an episode's
\* peak is not before the recovery of the episode before it.  For the curve
\* 100, 110, 95, 90, 105, 120 there is one episode: peak 110, trough 90,
\* recovery at the point of value 120.
C13_EpisodesMeasured ==
    Called("calculateDrawdowns") =>
        LET curve == call.args[1]
        IN  /\ \A k \in DOMAIN returned : EpisodeMeasured(curve, returned[k])
            /\ \A k \in DOMAIN returned : k > 1 => IndexOf(curve, returned[k].peakDate) >= RecoveryIndex(curve, returned[k - 1])
            /\ curve = ExampleCurve =>
                /\ Len(returned) = 1
                /\ returned[1].peakValue = 110 /\ returned[1].peakDate = curve[2].date
                /\ returned[1].troughValue = 90
                /\ returned[1].recoveryDate = <<curve[6].date>>

\* the documented curve
C13_Witness ==
    /\ Called("calculateDrawdowns")
    /\ call.args[1] = ExampleCurve
    /\ Len(returned) = 1

(***************************************************************************)
(* App.displayDrawdownPeriods (app.js): the five deepest episodes, written *)
(* into the drawdownList element.  innerHTML is the sequence of the        *)
(* element's children: nothing, the empty-state paragraph, or the items.   *)
(***************************************************************************)
MaxEpisodes == 6

\* Utils.formatPercent(value): the sign prefix and percent.toFixed(2), as a number of hundredths of a percent
formatPercent(value) ==
    LET scaled == Q(value.n * 10000, value.d)
        hundredths == Sgn(scaled.n) * ((2 * Abs(scaled.n) + scaled.d) \div (2 * scaled.d))
    IN  [sign |-> IF scaled.n >= 0 THEN "+" ELSE "", hundredths |-> hundredths]

RECURSIVE InsertByDrawdown(_, _)
\* dd placed after the episodes that are not shallower than it (the sort is stable)
InsertByDrawdown(sorted, dd) ==
    IF sorted = <<>> THEN <<dd>>
    ELSE IF QCmp(dd.drawdown, Head(sorted).drawdown) < 0 THEN <<dd>> \o sorted
    ELSE <<Head(sorted)>> \o InsertByDrawdown(Tail(sorted), dd)

RECURSIVE SortByDrawdown(_)
\* drawdowns.sort((a, b) => a.drawdown - b.drawdown)
SortByDrawdown(drawdowns) ==
    IF drawdowns = <<>> THEN <<>>
    ELSE InsertByDrawdown(SortByDrawdown(SubSeq(drawdowns, 1, Len(drawdowns) - 1)), drawdowns[Len(drawdowns)])

\* a mutant of TopDrawdowns: the first five episodes of the curve, unsorted
TopDrawdowns_Unsorted(drawdowns) == SubSeq(drawdowns, 1, IF Len(drawdowns) < 5 THEN Len(drawdowns) ELSE 5)

\* .sort(...).slice(0, 5)
TopDrawdowns(drawdowns) ==
    LET sorted == SortByDrawdown(drawdowns)
    IN  SubSeq(sorted, 1, IF Len(sorted) < 5 THEN Len(sorted) ELSE 5)

EMPTY_STATE == <<[emptyState |-> "No significant drawdowns"]>>

\* one drawdown-item of the list
DrawdownItem(dd, index) ==
    [worst |-> index = 0,
     rank |-> index + 1,
     value |-> formatPercent(dd.drawdown),
     peakDate |-> dd.peakDate,
     troughDate |-> dd.troughDate,
     duration |-> dd.duration,
     recovery |-> IF dd.recoveryDate # NoDate THEN [text |-> "Recovered", date |-> dd.recoveryDate] ELSE [text |-> "Not recovered", date |-> NoDate]]

\* the element after displayDrawdownPeriods(equityCurve); a null curve is NullArr
displayDrawdownPeriods(element, equityCurve) ==
    IF ~element.present \/ equityCurve = NullArr \/ Len(equityCurve) < 2 THEN element
    ELSE LET topDrawdowns == TopDrawdowns(calculateDrawdowns(equityCurve))
         IN  IF Len(topDrawdowns) = 0 THEN [element EXCEPT !.innerHTML = EMPTY_STATE]
             ELSE [element EXCEPT !.innerHTML = [i \in DOMAIN topDrawdowns |-> DrawdownItem(topDrawdowns[i], i - 1)]]

(***************************************************************************)
(* SpecDisplay: displayDrawdownPeriods called on a page, any number of     *)
(* times.  The curves fall 20 or 40 below the last peak and rise 10 above  *)
(* it, up to MaxEpisodes times; the last fall need not recover.            *)
(***************************************************************************)
RECURSIVE FallsAndRises(_, _)
FallsAndRises(peak, falls) ==
    IF falls = <<>> THEN <<>> ELSE <<peak - Head(falls), peak + 10>> \o FallsAndRises(peak + 10, Tail(falls))

FallCurves == UNION {{<<100>> \o FallsAndRises(100, falls) : falls \in [1..n -> {20, 40}]} : n \in 0..MaxEpisodes}

DisplayCurves ==
    {NullArr, <<>>, CurveOf(<<100, 99>>), CurveOf(<<100, 110>>)}
        \cup {CurveOf(values) : values \in FallCurves}
        \cup {CurveOf(SubSeq(values, 1, Len(values) - 1)) : values \in FallCurves \ {<<100>>}}

InitDisplay ==
    /\ priceHistory = <<>>
    /\ assets = <<>>
    /\ config = [targetCash |-> XInt(100000), lookbackWindow |-> 252, leverageRate |-> Null, riskFreeRate |-> Null]
    /\ riskMetrics = Null
    /\ projections = <<>>
    /\ drawdownList \in {[present |-> p, innerHTML |-> <<>>] : p \in BOOLEAN}
    /\ InitRest
    /\ call = NoCall
    /\ returned = NoCall

DisplayDrawdownPeriods ==
    \E equityCurve \in DisplayCurves :
        /\ drawdownList' = displayDrawdownPeriods(drawdownList, equityCurve)
        /\ call' = [fn |-> "displayDrawdownPeriods", args |-> <<equityCurve>>]
        /\ returned' = Null
        /\ UNCHANGED <<priceHistory, assets, config, riskMetrics, projections, calcVars, appVars, envVars>>

NextDisplay == DisplayDrawdownPeriods

SpecDisplay == InitDisplay /\ [][NextDisplay]_vars

\* the episode of the curve that a list item shows, by its peak date
EpisodeOf(item, episodes) == CHOOSE dd \in Range(episodes) : dd.peakDate = item.peakDate

\* what displayDrawdownPeriods(curve) leaves in the element
DrawdownsReported(before, after, curve) ==
    IF curve = NullArr \/ Len(curve) < 2 \/ ~before.present THEN after = before
    ELSE LET episodes == calculateDrawdowns(curve)
             items == after.innerHTML
         IN  IF episodes = <<>> THEN items = EMPTY_STATE
             ELSE /\ Len(items) <= 5
                  /\ Len(items) = 5 \/ Len(items) = Len(episodes)
                  /\ \A i \in DOMAIN items : \E dd \in Range(episodes) : dd.peakDate = items[i].peakDate /\ dd.troughDate = items[i].troughDate
                  /\ \A i, j \in DOMAIN items : i < j =>
                        /\ items[i].peakDate # items[j].peakDate
                        /\ QCmp(EpisodeOf(items[i], episodes).drawdown, EpisodeOf(items[j], episodes).drawdown) <= 0
                  /\ \A dd \in Range(episodes) : (\A i \in DOMAIN items : items[i].peakDate # dd.peakDate) =>
                        \A i \in DOMAIN items : QCmp(EpisodeOf(items[i], episodes).drawdown, dd.drawdown) <= 0
                  /\ \A i \in DOMAIN items : (items[i].recovery.text = "Not recovered") <=> (EpisodeOf(items[i], episodes).recoveryDate = NoDate)

\* C14: displayDrawdownPeriods leaves at most 5 items in the list, the episodes
\* of the curve with the most negative drawdown, most negative first, with
\* 'Not recovered' exactly on an episode without recovery date; it leaves
\* 'No significant drawdowns' when the curve has no episode, and leaves the
\* list as it was for a curve of fewer than 2 points (or no curve, or no list).
C14_TopFiveReported ==
    [][Called("displayDrawdownPeriods")' => DrawdownsReported(drawdownList, drawdownList', call'.args[1])]_vars

\* six episodes, the last one open: five are listed, one of them not recovered
C14_Witness ==
    /\ Called("displayDrawdownPeriods")
    /\ call.args[1] # NullArr
    /\ Len(call.args[1]) >= 2
    /\ Len(calculateDrawdowns(call.args[1])) = 6
    /\ Len(drawdownList.innerHTML) = 5
    /\ \E i \in DOMAIN drawdownList.innerHTML : drawdownList.innerHTML[i].recovery.text = "Not recovered"

(***************************************************************************)
(* EquityCurveBuilder (the backtest engine behind POST /backtest/subperiod;*)
(* its code is not among the sources, so it is modelled from the           *)
(* specification, sections 4.2 and 4.3).  A period is [weights, leverage,  *)
(* days]; a day is the pair of the two assets' returns; values are exact   *)
(* rationals.                                                              *)
(***************************************************************************)
MaxPeriods == 2

\* the leveraged portfolio return of one day, less the borrowing cost when leverage > 1
LeveragedReturn(weights, leverage, annualRate, day) ==
    LET raw == QAdd(QMul(weights[1], day[1]), QMul(weights[2], day[2]))
        cost == IF leverage > 1 THEN QMul(QDiv(annualRate, QInt(TRADING_DAYS_PER_YEAR)), QInt(leverage - 1)) ELSE QInt(0)
    IN  QSub(QMul(QInt(leverage), raw), cost)

RECURSIVE PeriodCurve(_, _)
\* value[0] = startValue, value[i] = value[i-1] x (1 + return[i])
PeriodCurve(startValue, returns) ==
    IF returns = <<>> THEN <<startValue>>
    ELSE <<startValue>> \o PeriodCurve(QMul(startValue, QAdd(QInt(1), Head(returns))), Tail(returns))

PeriodReturns(period, annualRate) == [i \in DOMAIN period.days |-> LeveragedReturn(period.weights, period.leverage, annualRate, period.days[i])]

RECURSIVE PeriodSegments(_, _, _)
\* the curve of each period: the ending value of period k is the starting value of period k+1
PeriodSegments(startValue, periods, annualRate) ==
    IF periods = <<>> THEN <<>>
    ELSE LET segment == PeriodCurve(startValue, PeriodReturns(Head(periods), annualRate))
         IN  <<segment>> \o PeriodSegments(segment[Len(segment)], Tail(periods), annualRate)

RECURSIVE Stitched(_)
\* the segments as one curve: the boundary point is kept once
Stitched(segments) ==
    IF segments = <<>> THEN <<>>
    ELSE IF Len(segments) = 1 THEN segments[1]
    ELSE segments[1] \o Tail(Stitched(Tail(segments)))

\* a mutant of buildEquityCurve: every period starts from the initial capital again
buildEquityCurve_FreshCapital(initialCapital, periods, annualRate) ==
    LET segments == [k \in DOMAIN periods |-> PeriodCurve(initialCapital, PeriodReturns(periods[k], annualRate))]
    IN  [segments |-> segments, curve |-> Stitched(segments)]

buildEquityCurve(initialCapital, periods, annualRate) ==
    LET segments == PeriodSegments(initialCapital, periods, annualRate)
    IN  [segments |-> segments, curve |-> Stitched(segments)]

(***************************************************************************)
(* SpecEquity: one equity curve built over 1..MaxPeriods periods.          *)
(***************************************************************************)
INITIAL_CAPITAL == QInt(100)

PeriodDays == {<<QInt(0), QInt(1)>>, <<QInt(1), Q(-1, 2)>>}

PeriodWeights == {<<QInt(1), QInt(0)>>, <<Q(1, 2), Q(1, 2)>>}

EquityPeriods == {[weights |-> w, leverage |-> l, days |-> d] : w \in PeriodWeights, l \in {1, 2}, d \in UNION {[1..n -> PeriodDays] : n \in 1..2}}

BuildEquityCurve ==
    /\ call = NoCall
    /\ \E n \in 1..MaxPeriods, annualRate \in {QInt(0), QInt(63)} : \E periods \in [1..n -> EquityPeriods] :
        /\ call' = [fn |-> "buildEquityCurve", args |-> <<INITIAL_CAPITAL, periods, annualRate>>]
        /\ returned' = buildEquityCurve(INITIAL_CAPITAL, periods, annualRate)
        /\ UNCHANGED stateVars

NextEquity == BuildEquityCurve

SpecEquity == InitCall /\ [][NextEquity]_vars

RECURSIVE AllReturns(_, _)
\* the daily returns of all periods in date order
AllReturns(periods, annualRate) ==
    IF periods = <<>> THEN <<>> ELSE PeriodReturns(Head(periods), annualRate) \o AllReturns(Tail(periods), annualRate)

\* C15: the equity curve of a multi-period backtest is continuous at every
\* period boundary (the value that starts period k+1 is the ending value of
\* period k), starts at the initial capital, and moves only by the daily
\* returns: value[i] = value[i-1] x (1 + return[i]), whatever the weights and
\* leverage of the periods are.
C15_ContinuousAtBoundaries ==
    Called("buildEquityCurve") =>
        LET segments == returned.segments
            curve == returned.curve
            returns == AllReturns(call.args[2], call.args[3])
        IN  /\ Len(segments) = Len(call.args[2])
            /\ \A k \in 1..(Len(segments) - 1) : segments[k + 1][1] = segments[k][Len(segments[k])]
            /\ Len(curve) = Len(returns) + 1
            /\ curve[1] = call.args[1]
            /\ \A i \in DOMAIN returns : QCmp(curve[i + 1], QMul(curve[i], QAdd(QInt(1), returns[i]))) = 0

\* two periods with different weights and leverage, the first ending away from the initial capital
C15_Witness ==
    /\ Called("buildEquityCurve")
    /\ Len(call.args[2]) = 2
    /\ call.args[2][1].weights # call.args[2][2].weights
    /\ call.args[2][1].leverage # call.args[2][2].leverage
    /\ returned.segments[2][1] # call.args[1]

(***************************************************************************)
(* Utils.normalizeWeights and Utils.validateWeights (utils.js).  A weights *)
(* object is a sequence of [key, val] in insertion order; weights are      *)
(* exact rationals.                                                        *)
(***************************************************************************)
RECURSIVE WeightTotal(_)
\* Object.values(weights).reduce((sum, w) => sum + w, 0)
WeightTotal(weights) == IF weights = <<>> THEN QInt(0) ELSE QAdd(WeightTotal(SubSeq(weights, 1, Len(weights) - 1)), weights[Len(weights)].val)

\* a mutant of normalizeWeights: weights with a zero total are returned as they are
normalizeWeights_ZeroKept(weights) ==
    IF WeightTotal(weights).n = 0 THEN weights
    ELSE [i \in DOMAIN weights |-> [key |-> weights[i].key, val |-> QDiv(weights[i].val, WeightTotal(weights))]]

normalizeWeights(weights) ==
    IF WeightTotal(weights).n = 0
    THEN LET n == Len(weights)
             equalWeight == IF n > 0 THEN Q(1, n) ELSE QInt(0)
         IN  [i \in DOMAIN weights |-> [key |-> weights[i].key, val |-> equalWeight]]
    ELSE [i \in DOMAIN weights |-> [key |-> weights[i].key, val |-> QDiv(weights[i].val, WeightTotal(weights))]]

\* tolerance = 0.01
DEFAULT_TOLERANCE == Q(1, 100)

QAbs(a) == [n |-> Abs(a.n), d |-> a.d]

validateWeights(weights, tolerance) == QCmp(QAbs(QSub(WeightTotal(weights), QInt(1))), tolerance) <= 0

(***************************************************************************)
(* SpecNormalize: normalizeWeights on one weights object.                  *)
(***************************************************************************)
WeightInputs == {Q(-1, 2), QInt(0), Q(1, 4), Q(1, 2), QInt(1)}

WeightsOver(ts) == {[i \in DOMAIN ts |-> [key |-> ts[i], val |-> w[i]]] : w \in [DOMAIN ts -> WeightInputs]}

WeightObjects == UNION {WeightsOver(ts) : ts \in {<<>>, <<"A">>, <<"A", "B">>, <<"B", "A", "C">>}}

CallNormalizeWeights ==
    /\ call = NoCall
    /\ \E weights \in WeightObjects :
        /\ call' = [fn |-> "normalizeWeights", args |-> <<weights>>]
        /\ returned' = normalizeWeights(weights)
        /\ UNCHANGED stateVars

NextNormalize == CallNormalizeWeights

SpecNormalize == InitCall /\ [][NextNormalize]_vars

RECURSIVE QSum(_)
QSum(values) == IF values = <<>> THEN QInt(0) ELSE QAdd(Head(values), QSum(Tail(values)))

Vals(obj) == [i \in DOMAIN obj |-> obj[i].val]

getTotalWeight(list) == SumSeq([i \in DOMAIN list |-> list[i].weight])

(***************************************************************************)
(* Calculator.calculate (main.js) with the CalculatorUI getters and the    *)
(* CalculatorState setters it calls.  An input field holds <<>> (empty or  *)
(* not a number) or <<number>>.  CalculatorState defines setTargetCash,    *)
(* setLookbackWindow and setRiskFreeRate but no setLeverageRate, so the    *)
(* call CalculatorState.setLeverageRate(...) throws a TypeError, which the *)
(* catch block of calculate reports.                                       *)
(***************************************************************************)
\* parseFloat(input?.value) || 100000
getTargetCash(field) == IF field = <<>> \/ XIsZero(field[1]) THEN XInt(100000) ELSE field[1]

\* parseInt(input?.value) || 252
getLookbackWindow(field) == IF field = <<>> \/ field[1] = 0 THEN 252 ELSE field[1]

\* setTargetCash(getTargetCash()) and setLookbackWindow(getLookbackWindow())
ConfigFromUI(cfg, ui) ==
    Once({[cfg EXCEPT !.targetCash = IF XSgn(targetCash) < 0 THEN XInt(0) ELSE targetCash,
                      !.lookbackWindow = Max(20, IF days < 1260 THEN days ELSE 1260)] :
          targetCash \in {getTargetCash(ui.targetCash)}, days \in {getLookbackWindow(ui.lookbackWindow)}})

\* CalculatorState.saveToStorage(): the item is JSON.stringify({config, assets})
saveToStorage(storage, cfg, list) == IF storage.full THEN storage ELSE [storage EXCEPT !.calculator = [config |-> cfg, assets |-> list]]

\* error.message of calling the method CalculatorState does not have
NO_SETTER == "CalculatorState.setLeverageRate is not a function"

\* Math.abs(totalWeight - 1) > 0.01
WeightsOffTotal(list) ==
    LET off == XSub(getTotalWeight(list), XInt(1))
    IN  XCmp(IF XSgn(off) < 0 THEN XNeg(off) ELSE off, XQ(Q(1, 100))) > 0

Toast(message, type) == [message |-> message, type |-> type]

\* a mutant of CalculateChecks: the weights are not checked
CalculateChecks_NoWeightCheck(list) ==
    IF Len(list) = 0 THEN Toast(<<"Add assets before calculating">>, "error") ELSE Null

\* the checks before any computation: the error toast, or Null to go on
CalculateChecks(list) ==
    IF Len(list) = 0 THEN Toast(<<"Add assets before calculating">>, "error")
    ELSE IF WeightsOffTotal(list) THEN Toast(<<"Weights should sum to 100%">>, "error")
    ELSE Null

(***************************************************************************)
(* SpecCalculate: one Calculator.calculate on a configured calculator, and *)
(* Utils.validateWeights on one weights object.                            *)
(***************************************************************************)
UIInputs ==
    [targetCash : {<<>>, <<XInt(0)>>, <<XInt(2)>>, <<XInt(-2)>>},
     lookbackWindow : {<<>>, <<0>>, <<5>>, <<300>>, <<2000>>},
     leverageRate : {<<>>, <<XInt(3)>>}]

InitCalculate ==
    /\ priceHistory = <<>>
    /\ assets \in AssetLists(<<"A", "B">>)
    /\ config \in Configs
    /\ riskMetrics = Null
    /\ projections = <<>>
    /\ drawdownList = [present |-> TRUE, innerHTML |-> <<>>]
    /\ InitRest
    /\ call = NoCall
    /\ returned = NoCall

\* Calculator.calculate() when a check fails
CalculateRejected ==
    /\ call = NoCall
    /\ CalculateChecks(assets) # Null
    /\ toast' = CalculateChecks(assets)
    /\ call' = [fn |-> "calculate", args |-> <<>>]
    /\ returned' = Null
    /\ UNCHANGED <<priceHistory, assets, config, riskMetrics, projections, drawdownList, calcVars, appState, request, envVars>>

\* Calculator.calculate() when the checks pass: the config is updated from the
\* UI up to the call of setLeverageRate, which throws
CalculateRun ==
    /\ call = NoCall
    /\ CalculateChecks(assets) = Null
    /\ \E ui \in UIInputs :
        /\ config' = ConfigFromUI(config, ui)
        /\ localStorage' = saveToStorage(localStorage, ConfigFromUI(config, ui), assets)
        /\ toast' = Toast(<<"Calculation failed: ", NO_SETTER>>, "error")
        /\ call' = [fn |-> "calculate", args |-> <<ui>>]
        /\ returned' = Null
        /\ UNCHANGED <<priceHistory, assets, riskMetrics, projections, drawdownList, calcVars, appState, request, fetches>>

Calculate == CalculateRejected \/ CalculateRun

ToleranceInputs == {DEFAULT_TOLERANCE, QInt(0), Q(1, 4)}

ValidatedWeights == WeightsOver(<<"A", "B">>) \cup {<<>>} \cup {<<[key |-> "A", val |-> Q(1, 2)], [key |-> "B", val |-> v]>> : v \in {Q(49, 100), Q(51, 100), Q(48, 100), Q(52, 100)}}

CallValidateWeights ==
    /\ call = NoCall
    /\ \E weights \in ValidatedWeights, tolerance \in ToleranceInputs :
        /\ call' = [fn |-> "validateWeights", args |-> <<weights, tolerance>>]
        /\ returned' = validateWeights(weights, tolerance)
        /\ UNCHANGED stateVars

NextCalculate == CalculateRejected \/ CalculateRun \/ CallValidateWeights

SpecCalculate == InitCalculate /\ [][NextCalculate]_vars

\* the rational value of an exact real without root or power
XRational(x) == IF x.e = 0 /\ x.s.n = 0 THEN x.k ELSE NoValue

\* the sum of the asset weights as a rational
AssetWeightSum(list) == QSum([i \in DOMAIN list |-> XRational(list[i].weight)])

\* the sum is more than 0.01 away from 1
OffByMoreThanTolerance(total) == 100 * Abs(total.n - total.d) > total.d

\* C18: Calculator.calculate computes nothing when there is no asset or the
\* weights are more than 0.01 away from summing to 1: it shows an error, keeps
\* the assets and their weights as they are, and leaves config, positions,
\* tradeOrders, riskMetrics and projection unchanged; and validateWeights
\* accepts exactly the weights with |sum - 1| <= tolerance.
C18_InvalidWeightsRejected ==
    [][/\ (Called("calculate")' /\ (Len(assets) = 0 \/ OffByMoreThanTolerance(AssetWeightSum(assets)))) =>
            /\ toast' # Null /\ toast'.type = "error"
            /\ assets' = assets
            /\ config' = config
            /\ <<positions', tradeOrders', riskMetrics', projection'>> = <<positions, tradeOrders, riskMetrics, projection>>
            /\ <<latestPrices', priceHistory', projections'>> = <<latestPrices, priceHistory, projections>>
       /\ Called("validateWeights")' =>
            (returned' <=> QCmp(QAbs(QSub(QSum(Vals(call'.args[1])), QInt(1))), call'.args[2]) <= 0)]_vars

\* a calculation refused for weights that sum to 3/2
C18_Witness ==
    /\ Called("calculate")
    /\ Len(assets) = 2
    /\ toast = Toast(<<"Weights should sum to 100%">>, "error")
    /\ config.targetCash = XInt(2)

(***************************************************************************)
(* The sub-periods of the viewer (app.js).  A sub-period is [id, start,    *)
(* end, weights, enabled, margin]: dates are day numbers, enabled is       *)
(* <<TRUE>>, <<FALSE>> or <<>> (no such field, as in a state stored before *)
(* the toggle existed), margin is a rational, Undefined or Null.           *)
(***************************************************************************)
MaxSubPeriods == 2

Undefined == [undefined |-> TRUE]

\* the position of the sub-period with this id, 0 if there is none
FindPeriod(subPeriods, id) ==
    IF \E i \in DOMAIN subPeriods : subPeriods[i].id = id THEN CHOOSE i \in DOMAIN subPeriods : subPeriods[i].id = id /\ \A j \in 1..(i - 1) : subPeriods[j].id # id ELSE 0

addSubPeriod(state, id) ==
    [state EXCEPT !.subPeriods = Append(@, [id |-> id, start |-> state.dateRange.start, end |-> state.dateRange.end, weights |-> state.weights, enabled |-> <<TRUE>>, margin |-> Undefined])]

updateSubPeriodDate(state, id, field, value) ==
    IF FindPeriod(state.subPeriods, id) = 0 THEN state
    ELSE IF field = "start" THEN [state EXCEPT !.subPeriods[FindPeriod(state.subPeriods, id)].start = value]
    ELSE [state EXCEPT !.subPeriods[FindPeriod(state.subPeriods, id)].end = value]

\* period.enabled = !period.enabled
toggleSubPeriod(state, id) ==
    IF FindPeriod(state.subPeriods, id) = 0 THEN state
    ELSE [state EXCEPT !.subPeriods[FindPeriod(state.subPeriods, id)].enabled = IF @ = <<TRUE>> THEN <<FALSE>> ELSE <<TRUE>>]

\* period.margin = parseFloat(value) || undefined; a field is <<>> (not a number) or <<number>>
updateSubPeriodMargin(state, id, field) ==
    IF FindPeriod(state.subPeriods, id) = 0 THEN state
    ELSE [state EXCEPT !.subPeriods[FindPeriod(state.subPeriods, id)].margin = IF field = <<>> \/ field[1].n = 0 THEN Undefined ELSE field[1]]

\* a mutant of EnabledPeriods: only the periods whose flag is true
EnabledPeriods_OnlyTrue(subPeriods) == SelectSeq(subPeriods, LAMBDA p : p.enabled = <<TRUE>>)

\* this.state.subPeriods.filter(p => p.enabled !== false)
EnabledPeriods(subPeriods) == SelectSeq(subPeriods, LAMBDA p : p.enabled # <<FALSE>>)

\* one entry of periods in the request; null means use global
SubmittedPeriod(p) ==
    [start |-> p.start, end |-> p.end, weights |-> normalizeWeights(p.weights), margin |-> IF p.margin # Undefined THEN p.margin ELSE Null]

\* the body API.runSubperiodBacktest posts to /backtest/subperiod
SubperiodRequest(state) ==
    [endpoint |-> "/backtest/subperiod",
     tickers |-> state.selectedTickers,
     global_weights |-> normalizeWeights(state.weights),
     global_margin |-> IF state.margin.n = 0 THEN Q(1, 1) ELSE state.margin,
     start |-> state.dateRange.start,
     end |-> state.dateRange.end,
     periods |-> [i \in DOMAIN EnabledPeriods(state.subPeriods) |-> SubmittedPeriod(EnabledPeriods(state.subPeriods)[i])]]

\* the body API.runBacktest posts to /backtest
BacktestRequest(state, autoNormalize) ==
    [endpoint |-> "/backtest",
     tickers |-> state.selectedTickers,
     weights |-> IF autoNormalize THEN normalizeWeights(state.weights) ELSE state.weights,
     start |-> state.dateRange.start,
     end |-> state.dateRange.end,
     margin |-> IF state.margin.n = 0 THEN Q(1, 1) ELSE state.margin]

(***************************************************************************)
(* The viewer's item in localStorage (App.saveStateToStorage and           *)
(* App.loadStateFromStorage, app.js).  The item is the JSON document: a    *)
(* member whose value is undefined is left out by JSON.stringify and reads *)
(* as undefined after JSON.parse.                                          *)
(***************************************************************************)
Absent == [absent |-> TRUE]

\* an item that JSON.parse rejects
Unparseable == [unparseable |-> TRUE]

\* JSON.stringify(stateToSave)
ViewerJSON(state) ==
    [selectedTickers |-> state.selectedTickers,
     weights |-> state.weights,
     margin |-> state.margin,
     dateRange |-> state.dateRange,
     subPeriods |-> [i \in DOMAIN state.subPeriods |-> [state.subPeriods[i] EXCEPT !.margin = IF @ = Undefined THEN Absent ELSE @]]]

saveStateToStorage(storage, state) == IF storage.full THEN storage ELSE [storage EXCEPT !.viewer = ViewerJSON(state)]

\* the fields of App.state after loadStateFromStorage
loadStateFromStorage(state, storage) ==
    IF storage.viewer \in {Null, Unparseable} THEN state
    ELSE [state EXCEPT !.selectedTickers = storage.viewer.selectedTickers,
                       !.weights = storage.viewer.weights,
                       !.margin = IF storage.viewer.margin.n = 0 THEN Q(1, 1) ELSE storage.viewer.margin,
                       !.dateRange = storage.viewer.dateRange,
                       !.subPeriods = [i \in DOMAIN storage.viewer.subPeriods |-> [storage.viewer.subPeriods[i] EXCEPT !.margin = IF @ = Absent THEN Undefined ELSE @]]]

(***************************************************************************)
(* The backtest endpoints.  Their code is not among the sources; the       *)
(* responses are modelled from the specification (section 4.3): a schedule *)
(* with overlapping periods is refused as InvalidPeriodSchedule, one with  *)
(* a gap may be refused or run with the global settings in the gap, and    *)
(* any request can fail on the way.                                        *)
(***************************************************************************)
\* two periods of the schedule share a date
PeriodsOverlap(periods) ==
    \E i, j \in DOMAIN periods : i < j /\ (periods[i].start..periods[i].end) \cap (periods[j].start..periods[j].end) # {}

\* a period that ends before it starts
PeriodsReversed(periods) == \E i \in DOMAIN periods : periods[i].end < periods[i].start

\* a date between the first start and the last end lies in no period
PeriodsLeaveGap(periods) ==
    \E i, j \in DOMAIN periods : \E d \in (periods[i].end + 1)..(periods[j].start - 1) :
        \A k \in DOMAIN periods : d < periods[k].start \/ d > periods[k].end

Failure(message) == [ok |-> FALSE, message |-> message]

Success(curve) == [ok |-> TRUE, result |-> [equity_curve |-> curve]]

\* a mutant of SubperiodResponses: an overlapping schedule is run like any other
SubperiodResponses_Lenient(body) ==
    {Success(ExampleCurve), Success(<<>>), Failure("Cannot connect to backend. Is the server running?")}

\* what POST /backtest/subperiod can answer
SubperiodResponses(body) ==
    IF PeriodsOverlap(body.periods) THEN {Failure("InvalidPeriodSchedule")}
    ELSE {Success(ExampleCurve), Success(<<>>), Failure("Cannot connect to backend. Is the server running?")}
            \cup (IF PeriodsLeaveGap(body.periods) \/ PeriodsReversed(body.periods) THEN {Failure("InvalidPeriodSchedule")} ELSE {})

\* what POST /backtest can answer
BacktestResponses(body) ==
    {Success(ExampleCurve), Success(<<>>), Failure("Cannot connect to backend. Is the server running?")}

(***************************************************************************)
(* App.runBacktest and App.runSubperiodBacktest (app.js); the outcome is   *)
(* [state, request, toast, list] for App.state, the request sent, the last *)
(* toast and the drawdownList element.                                     *)
(***************************************************************************)
\* displayMetrics: the drawdown list is redrawn from the stored equity curve
Displayed(list, result) == displayDrawdownPeriods(list, result.equity_curve)

runBacktest(state, sent, list, autoNormalize, response) ==
    IF Len(state.selectedTickers) = 0
    THEN [state |-> state, request |-> sent, toast |-> Toast(<<"No tickers selected">>, "error"), list |-> list]
    ELSE IF ~response.ok
    THEN [state |-> state, request |-> BacktestRequest(state, autoNormalize), toast |-> Toast(<<"Error: ", response.message>>, "error"), list |-> list]
    ELSE IF Len(response.result.equity_curve) = 0
    THEN [state |-> state, request |-> BacktestRequest(state, autoNormalize), toast |-> Toast(<<"Error: ", "Backtest returned empty results">>, "error"), list |-> list]
    ELSE [state |-> [state EXCEPT !.backtestResult = response.result],
          request |-> BacktestRequest(state, autoNormalize),
          toast |-> Toast(<<"Backtest complete">>, "success"),
          list |-> Displayed(list, response.result)]

runSubperiodBacktest(state, sent, list, autoNormalize, response) ==
    IF Len(EnabledPeriods(state.subPeriods)) = 0 THEN runBacktest(state, sent, list, autoNormalize, response)
    ELSE IF ~response.ok
    THEN [state |-> state, request |-> SubperiodRequest(state), toast |-> Toast(<<"Error: ", response.message>>, "error"), list |-> list]
    ELSE [state |-> [state EXCEPT !.backtestResult = response.result],
          request |-> SubperiodRequest(state),
          toast |-> Toast(<<"Sub-period backtest complete">>, "success"),
          list |-> Displayed(list, response.result)]

(***************************************************************************)
(* SpecSubperiods: sub-periods are added and edited in a viewer that has   *)
(* run a backtest, and then the sub-period backtest is run.  The storage   *)
(* quota is used up by the state the viewer started from.                  *)
(***************************************************************************)
\* a sub-period stored before the enabled flag existed
StoredPeriod(weights) == [id |-> 0, start |-> 1, end |-> 1, weights |-> weights, enabled |-> <<>>, margin |-> Undefined]

ViewerWeights == <<[key |-> "A", val |-> Q(1, 4)], [key |-> "B", val |-> Q(1, 2)]>>

ViewerStates ==
    {[selectedTickers |-> IF picked THEN <<"A", "B">> ELSE <<>>,
      weights |-> IF picked THEN ViewerWeights ELSE <<>>,
      margin |-> margin,
      dateRange |-> [start |-> 1, end |-> MaxDate],
      subPeriods |-> IF stored THEN <<StoredPeriod(IF picked THEN ViewerWeights ELSE <<>>)>> ELSE <<>>,
      backtestResult |-> [equity_curve |-> CurveOf(<<100, 110>>)]] :
        picked \in BOOLEAN, stored \in BOOLEAN, margin \in {Q(1, 1), Q(2, 1)}}

InitSubperiods ==
    /\ priceHistory = <<>>
    /\ assets = <<>>
    /\ config = [targetCash |-> XInt(100000), lookbackWindow |-> 252, leverageRate |-> Null, riskFreeRate |-> Null]
    /\ riskMetrics = Null
    /\ projections = <<>>
    /\ drawdownList = [present |-> TRUE, innerHTML |-> EMPTY_STATE]
    /\ latestPrices = <<>>
    /\ positions = Null
    /\ tradeOrders = Null
    /\ projection = Null
    /\ appState \in ViewerStates
    /\ request = Null
    /\ toast = Null
    /\ localStorage = [saveStateToStorage(NoStorage, appState) EXCEPT !.full = TRUE]
    /\ fetches = <<>>
    /\ call = NoCall
    /\ returned = NoCall

Edited(state) ==
    /\ appState' = state
    /\ UNCHANGED <<priceHistory, assets, config, riskMetrics, projections, drawdownList, calcVars, request, toast, call, returned, envVars>>

\* an edit that ends with saveStateToStorage
EditedAndSaved(state) ==
    /\ appState' = state
    /\ localStorage' = saveStateToStorage(localStorage, state)
    /\ UNCHANGED <<priceHistory, assets, config, riskMetrics, projections, drawdownList, calcVars, request, toast, call, returned, fetches>>

AddSubPeriod ==
    /\ call = NoCall
    /\ Len(appState.subPeriods) < MaxSubPeriods
    /\ EditedAndSaved(addSubPeriod(appState, Len(appState.subPeriods) + 1))

UpdateSubPeriodDate ==
    /\ call = NoCall
    /\ \E i \in DOMAIN appState.subPeriods, field \in {"start", "end"}, value \in Dates :
        Edited(updateSubPeriodDate(appState, appState.subPeriods[i].id, field, value))

ToggleSubPeriod ==
    /\ call = NoCall
    /\ \E i \in DOMAIN appState.subPeriods : EditedAndSaved(toggleSubPeriod(appState, appState.subPeriods[i].id))

UpdateSubPeriodMargin ==
    /\ call = NoCall
    /\ \E i \in DOMAIN appState.subPeriods, field \in {<<>>, <<QInt(0)>>, <<QInt(2)>>} :
        Edited(updateSubPeriodMargin(appState, appState.subPeriods[i].id, field))

RunSubperiodBacktest ==
    /\ call = NoCall
    /\ \E autoNormalize \in BOOLEAN :
       \E response \in IF Len(EnabledPeriods(appState.subPeriods)) = 0 THEN BacktestResponses(BacktestRequest(appState, autoNormalize)) ELSE SubperiodResponses(SubperiodRequest(appState)) :
       \E outcome \in {runSubperiodBacktest(appState, request, drawdownList, autoNormalize, response)} :
        /\ appState' = outcome.state
        /\ request' = outcome.request
        /\ toast' = outcome.toast
        /\ drawdownList' = outcome.list
        /\ call' = [fn |-> "runSubperiodBacktest", args |-> <<>>]
        /\ returned' = response
        /\ UNCHANGED <<priceHistory, assets, config, riskMetrics, projections, calcVars, envVars>>

NextSubperiods == AddSubPeriod \/ UpdateSubPeriodDate \/ ToggleSubPeriod \/ UpdateSubPeriodMargin \/ RunSubperiodBacktest

SpecSubperiods == InitSubperiods /\ [][NextSubperiods]_vars

(***************************************************************************)
(* Properties of SpecSubperiods.                                           *)
(***************************************************************************)
\* where a request went, "" for no request
Endpoint(sent) == IF sent = Null THEN "" ELSE sent.endpoint

RunStep == call = NoCall /\ call' # NoCall

NotDisabled(p) == p.enabled # <<FALSE>>

\* two periods that are not disabled, each starting no later than it ends,
\* where the later start is no later than the earlier end
EnabledOverlap(subPeriods) ==
    \E i, j \in DOMAIN subPeriods :
        /\ i # j /\ NotDisabled(subPeriods[i]) /\ NotDisabled(subPeriods[j])
        /\ subPeriods[i].start <= subPeriods[i].end /\ subPeriods[j].start <= subPeriods[j].end
        /\ subPeriods[i].start <= subPeriods[j].start /\ subPeriods[j].start <= subPeriods[i].end

\* the indices of the periods that are not disabled, in increasing order
NotDisabledIndices(subPeriods) == SortedSeq({i \in DOMAIN subPeriods : NotDisabled(subPeriods[i])})

ScheduleError == Toast(<<"Error: ", "InvalidPeriodSchedule">>, "error")

ScaledToOne(weights, given) ==
    /\ Len(weights) = Len(given)
    /\ \A i \in DOMAIN given : weights[i].key = given[i].key
    /\ Len(given) > 0 => QSum(Vals(weights)) = QInt(1)
    /\ \A i, j \in DOMAIN given : QMul(weights[i].val, given[j].val) = QMul(weights[j].val, given[i].val) \/ QSum(Vals(given)).n = 0
    /\ QSum(Vals(given)).n = 0 => \A i, j \in DOMAIN given : weights[i].val = weights[j].val

\* request entry sent for stored period p
SentFor(sent, p) ==
    /\ sent.start = p.start
    /\ sent.end = p.end
    /\ ScaledToOne(sent.weights, p.weights)
    /\ sent.margin = IF p.margin = Undefined THEN Null ELSE p.margin

\* C17: a run of the sub-period backtest with some period not disabled sends to
\* /backtest/subperiod exactly the periods whose enabled flag is not false, in
\* stored order, a period without own margin with margin null, along with the
\* global weights, the global margin and the full date range; with no such
\* period it sends no sub-period request but runs the standard backtest over
\* the full range
C17_EnabledPeriodsSubmitted ==
    [][RunStep =>
        IF \E i \in DOMAIN appState.subPeriods : NotDisabled(appState.subPeriods[i])
        THEN /\ Endpoint(request') = "/backtest/subperiod"
             /\ Len(request'.periods) = Len(NotDisabledIndices(appState.subPeriods))
             /\ \A k \in DOMAIN request'.periods : SentFor(request'.periods[k], appState.subPeriods[NotDisabledIndices(appState.subPeriods)[k]])
             /\ request'.tickers = appState.selectedTickers
             /\ ScaledToOne(request'.global_weights, appState.weights)
             /\ request'.global_margin = appState.margin
             /\ request'.start = appState.dateRange.start /\ request'.end = appState.dateRange.end
        ELSE IF Len(appState.selectedTickers) = 0
        THEN request' = request /\ toast' = Toast(<<"No tickers selected">>, "error")
        ELSE /\ Endpoint(request') = "/backtest"
             /\ request'.tickers = appState.selectedTickers
             /\ request'.weights = appState.weights \/ ScaledToOne(request'.weights, appState.weights)
             /\ request'.margin = appState.margin
             /\ request'.start = appState.dateRange.start /\ request'.end = appState.dateRange.end]_vars

\* of a disabled period and a stored period without flag or own margin, the
\* second alone was submitted
C17_Witness ==
    /\ call # NoCall
    /\ Len(appState.subPeriods) = 2
    /\ appState.subPeriods[1].enabled = <<>>
    /\ appState.subPeriods[1].margin = Undefined
    /\ appState.subPeriods[2].enabled = <<FALSE>>
    /\ request # Null
    /\ request.endpoint = "/backtest/subperiod"
    /\ Len(request.periods) = 1
    /\ request.periods[1].margin = Null
    /\ request.periods[1].start = appState.subPeriods[1].start

\* with every period disabled the standard backtest was run
C17_WitnessStandard ==
    /\ call # NoCall
    /\ Len(appState.subPeriods) = 2
    /\ \A i \in 1..2 : appState.subPeriods[i].enabled = <<FALSE>>
    /\ request # Null
    /\ request.endpoint = "/backtest"

(***************************************************************************)
(* The risk-free rate (DataManager.fetchRiskFreeRate, part_000, and        *)
(* CalculatorState.setRiskFreeRate, part_001).  A response of              *)
(* API.getFedRate is [ok, data], data the rates in percent, oldest first.  *)
(***************************************************************************)
\* const defaultRate = 0.05
DEFAULT_RATE == XQ(Q(5, 100))

\* the rate fetchRiskFreeRate stores and returns: the latest rate / 100, or
\* the default after a failed request or for empty data
fetchRiskFreeRate(response) ==
    IF response.ok /\ Len(response.data) > 0
    THEN XQ(QDiv(response.data[Len(response.data)], QInt(100)))
    ELSE DEFAULT_RATE

\* this.config.riskFreeRate = rate
setRiskFreeRate(cfg, rate) == [cfg EXCEPT !.riskFreeRate = rate]

(***************************************************************************)
(* SpecRate: the rate is fetched, or not, and the portfolio is analysed.   *)
(***************************************************************************)
FedResponses ==
    {[ok |-> FALSE, data |-> <<>>]} \cup
    {[ok |-> TRUE, data |-> data] : data \in {<<>>, <<QInt(0)>>, <<QInt(4)>>, <<QInt(0), QInt(5)>>, <<QInt(5), QInt(0)>>}}

InitRate ==
    /\ priceHistory = <<>>
    /\ assets \in AssetsOver(<<"A">>)
    /\ config \in Configs
    /\ riskMetrics = Null
    /\ projections = <<>>
    /\ drawdownList = [present |-> TRUE, innerHTML |-> <<>>]
    /\ InitRest
    /\ call = NoCall
    /\ returned = NoCall

FetchRiskFreeRate ==
    /\ call = NoCall
    /\ \E response \in FedResponses :
        /\ config' = setRiskFreeRate(config, fetchRiskFreeRate(response))
        /\ call' = [fn |-> "fetchRiskFreeRate", args |-> <<response>>]
        /\ returned' = fetchRiskFreeRate(response)
        /\ UNCHANGED <<priceHistory, assets, riskMetrics, projections, drawdownList, calcVars, appVars, envVars>>

\* RiskAnalysis.analyze() before any fetch of the rate or after one; args
\* keeps the response the rate came from
AnalyzeWithRate ==
    /\ IF call = NoCall THEN TRUE ELSE call.fn = "fetchRiskFreeRate"
    /\ \E history \in FetchedHistories(assets) :
       \E metrics \in {analyze(history, assets, config)} :
        /\ priceHistory' = history
        /\ riskMetrics' = IF metrics = Null THEN riskMetrics ELSE metrics
        /\ call' = [fn |-> "analyze", args |-> IF call = NoCall THEN <<>> ELSE call.args]
        /\ returned' = metrics
        /\ UNCHANGED <<assets, config, projections, drawdownList, calcVars, appVars, envVars>>

NextRate == FetchRiskFreeRate \/ AnalyzeWithRate

SpecRate == InitRate /\ [][NextRate]_vars

\* the latest fetched rate as a fraction where a response brought one, else 0.05
AvailableRate(args) ==
    IF args # <<>> /\ args[1].ok /\ args[1].data # <<>>
    THEN XQ(Q(args[1].data[Len(args[1].data)].n, 100 * args[1].data[Len(args[1].data)].d))
    ELSE XQ(Q(5, 100))

\* after fetchRiskFreeRate, config.riskFreeRate is a number
C20_RateIsNumber == Called("fetchRiskFreeRate") => config.riskFreeRate # Null /\ config.riskFreeRate = returned

\* the riskFreeRate of the metrics is the rate in their Sharpe ratio
C20_ReportedRateUsed ==
    Called("analyze") /\ returned # Null /\ ~XIsZero(returned.annualizedVolatility) =>
        XEq(XMul(returned.sharpeRatio, returned.annualizedVolatility), XSub(returned.annualizedReturn, returned.riskFreeRate))

\* C20: the rate in the Sharpe ratio of an analysis is the latest fetched Fed
\* funds rate / 100 when a fetch brought one and 0.05 otherwise (failed fetch,
\* empty data, rate never set); after fetchRiskFreeRate config.riskFreeRate is
\* a number; and the metrics report the rate their Sharpe ratio uses
C20_FetchedRateUsed ==
    /\ C20_RateIsNumber
    /\ C20_ReportedRateUsed
    /\ Called("analyze") /\ returned # Null => returned.riskFreeRate = AvailableRate(call.args)

(***************************************************************************)
(* PositionCalculator (risk-analysis.js).  A latest price is a positive    *)
(* integer, share counts are integers, dollar amounts exact reals.         *)
(***************************************************************************)
\* Math.round of a rational: the nearest integer, a half rounds up
RoundQ(q) == (2 * q.n + q.d) \div (2 * q.d)

\* one entry of positions
TargetPosition(targetCash, ticker, weight, priceInfo) ==
    Once({[ticker |-> ticker,
           weight |-> weight,
           targetDollar |-> targetDollar,
           price |-> priceInfo.price,
           priceDate |-> priceInfo.date,
           targetShares |-> targetShares,
           actualDollar |-> XInt(targetShares * priceInfo.price),
           drift |-> IF XSgn(targetDollar) > 0 THEN XDiv(XSub(XInt(targetShares * priceInfo.price), targetDollar), targetDollar) ELSE XInt(0)] :
          targetDollar \in {XMul(targetCash, weight)},
          targetShares \in {RoundQ(QDiv(XRational(XMul(targetCash, weight)), QInt(priceInfo.price)))}})

RECURSIVE PricedPositions(_, _, _)
\* the loop over Object.entries(weights): a ticker without price is skipped
PricedPositions(targetCash, weights, prices) ==
    IF weights = <<>> THEN <<>>
    ELSE IF HasKey(prices, weights[1].key)
    THEN <<[key |-> weights[1].key, val |-> TargetPosition(targetCash, weights[1].key, weights[1].val, Get(prices, weights[1].key))]>> \o PricedPositions(targetCash, Tail(weights), prices)
    ELSE PricedPositions(targetCash, Tail(weights), prices)

RECURSIVE TotalActual(_)
\* totalActual += actualDollar
TotalActual(priced) ==
    IF priced = <<>> THEN XInt(0)
    ELSE XAdd(TotalActual(SubSeq(priced, 1, Len(priced) - 1)), priced[Len(priced)].val.actualDollar)

calculateTargetPositions(targetCash, weights, prices) ==
    Once({Append(priced, [key |-> "_totals",
                          val |-> [targetDollar |-> targetCash,
                                   actualDollar |-> TotalActual(priced),
                                   drift |-> IF XSgn(targetCash) > 0 THEN XDiv(XSub(TotalActual(priced), targetCash), targetCash) ELSE XInt(0)]]) :
          priced \in {PricedPositions(targetCash, weights, prices)}})

\* currentHoldings[ticker] || 0
HeldShares(currentHoldings, ticker) == IF HasKey(currentHoldings, ticker) THEN Get(currentHoldings, ticker) ELSE 0

\* a mutant of TradeOrder: shares is the signed difference
TradeOrder_SignedShares(position, currentShares) ==
    [ticker |-> position.ticker,
     action |-> IF position.targetShares > currentShares THEN "BUY" ELSE IF position.targetShares < currentShares THEN "SELL" ELSE "HOLD",
     shares |-> position.targetShares - currentShares,
     price |-> position.price,
     tradeValue |-> Abs(position.targetShares - currentShares) * position.price,
     currentShares |-> currentShares,
     targetShares |-> position.targetShares,
     currentValue |-> currentShares * position.price,
     targetValue |-> position.actualDollar]

\* the order pushed for one position; delta = targetShares - currentShares
TradeOrder(position, currentShares) ==
    [ticker |-> position.ticker,
     action |-> IF position.targetShares - currentShares > 0 THEN "BUY" ELSE IF position.targetShares - currentShares < 0 THEN "SELL" ELSE "HOLD",
     shares |-> Abs(position.targetShares - currentShares),
     price |-> position.price,
     tradeValue |-> Abs(position.targetShares - currentShares) * position.price,
     currentShares |-> currentShares,
     targetShares |-> position.targetShares,
     currentValue |-> currentShares * position.price,
     targetValue |-> position.actualDollar]

\* const actionOrder = { BUY: 0, SELL: 1, HOLD: 2 }
actionOrder(action) == IF action = "BUY" THEN 0 ELSE IF action = "SELL" THEN 1 ELSE 2

\* the sort comparator: negative when a goes before b
CompareOrders(a, b) ==
    IF actionOrder(a.action) - actionOrder(b.action) # 0 THEN actionOrder(a.action) - actionOrder(b.action)
    ELSE b.tradeValue - a.tradeValue

RECURSIVE InsertOrder(_, _)
\* order goes after the sorted orders that do not come after it
InsertOrder(sorted, order) ==
    IF sorted = <<>> THEN <<order>>
    ELSE IF CompareOrders(order, sorted[Len(sorted)]) >= 0 THEN Append(sorted, order)
    ELSE Append(InsertOrder(SubSeq(sorted, 1, Len(sorted) - 1), order), sorted[Len(sorted)])

RECURSIVE SortOrders(_)
\* orders.sort(comparator): a stable sort
SortOrders(orders) ==
    IF orders = <<>> THEN <<>>
    ELSE InsertOrder(SortOrders(SubSeq(orders, 1, Len(orders) - 1)), orders[Len(orders)])

RECURSIVE SumTradeValue(_, _)
\* totalBuyValue / totalSellValue
SumTradeValue(orders, action) ==
    IF orders = <<>> THEN 0
    ELSE (IF Head(orders).action = action THEN Head(orders).tradeValue ELSE 0) + SumTradeValue(Tail(orders), action)

calculateTradeOrders(targetPositions, currentHoldings) ==
    Once({[orders |-> SortOrders(orders),
           totals |-> [buyValue |-> SumTradeValue(orders, "BUY"),
                       sellValue |-> SumTradeValue(orders, "SELL"),
                       netCashFlow |-> SumTradeValue(orders, "SELL") - SumTradeValue(orders, "BUY")]] :
          orders \in {[i \in DOMAIN SelectSeq(targetPositions, LAMBDA entry : entry.key # "_totals") |->
                        TradeOrder(SelectSeq(targetPositions, LAMBDA entry : entry.key # "_totals")[i].val,
                                   HeldShares(currentHoldings, SelectSeq(targetPositions, LAMBDA entry : entry.key # "_totals")[i].key))]}})

\* CalculatorState.getCurrentHoldings()
getCurrentHoldings(list) == [i \in DOMAIN list |-> [key |-> list[i].ticker, val |-> list[i].currentShares]]

(***************************************************************************)
(* SpecOrders: target positions are computed for a portfolio of up to      *)
(* three assets and the trade orders against the current holdings.         *)
(***************************************************************************)
\* the most shares held of one asset
MaxHeld == 3

OrderCash == {XInt(0), XInt(4), XInt(7)}

OrderWeights == {XQ(Q(1, 4)), XQ(Q(1, 2))}

\* the latest price of a ticker on date MaxDate
LatestPrices == {[date |-> MaxDate, price |-> p] : p \in 1..MaxPrice}

OrderTickers == SubSeqs(<<"A", "B", "C">>)

CallTradeOrders ==
    /\ call = NoCall
    /\ \E ts \in OrderTickers, targetCash \in OrderCash :
       \E weights \in MapsOver(ts, OrderWeights), held \in MapsOver(ts, {0, 1, MaxHeld}) :
       \E priced \in SubSeqs(ts) :
       \E prices \in MapsOver(priced, LatestPrices) :
       \E targetPositions \in {calculateTargetPositions(targetCash, weights, prices)} :
        /\ call' = [fn |-> "calculateTradeOrders", args |-> <<targetPositions, held>>]
        /\ returned' = calculateTradeOrders(targetPositions, held)
        /\ UNCHANGED stateVars

NextOrders == CallTradeOrders

SpecOrders == InitCall /\ [][NextOrders]_vars

\* the positions of the assets that have a price
PricedEntries(targetPositions) == SelectSeq(targetPositions, LAMBDA entry : entry.key # "_totals")

\* the shares held after an order is carried out
SharesAfter(order) ==
    IF order.action = "BUY" THEN order.currentShares + order.shares
    ELSE IF order.action = "SELL" THEN order.currentShares - order.shares
    ELSE order.currentShares

RECURSIVE ValueOf(_, _, _)
\* the trade value of the orders numbered in S with the given action
ValueOf(orders, S, action) ==
    IF S = {} THEN 0
    ELSE LET i == CHOOSE i \in S : TRUE
         IN  (IF orders[i].action = action THEN orders[i].tradeValue ELSE 0) + ValueOf(orders, S \ {i}, action)

ActionRank(action) == CASE action = "BUY" -> 1 [] action = "SELL" -> 2 [] action = "HOLD" -> 3

\* C21: calculateTradeOrders returns one order for each asset with a price:
\* BUY, SELL or HOLD as targetShares is above, below or equal to the shares
\* held, for |targetShares - currentShares| shares; carrying the orders out
\* gives the target share counts; buyValue and sellValue are the sums over
\* the BUY and SELL orders and netCashFlow their difference; BUY orders come
\* first, then SELL, then HOLD, larger trade values first within an action
C21_OrdersMatchTargets ==
    Called("calculateTradeOrders") =>
        /\ Len(returned.orders) = Len(PricedEntries(call.args[1]))
        /\ \A k \in DOMAIN PricedEntries(call.args[1]) :
            \E i \in DOMAIN returned.orders :
                /\ returned.orders[i].ticker = PricedEntries(call.args[1])[k].key
                /\ \A j \in DOMAIN returned.orders : returned.orders[j].ticker = returned.orders[i].ticker => j = i
                /\ returned.orders[i].targetShares = PricedEntries(call.args[1])[k].val.targetShares
                /\ returned.orders[i].currentShares = Get(call.args[2], returned.orders[i].ticker)
                /\ returned.orders[i].tradeValue = returned.orders[i].shares * PricedEntries(call.args[1])[k].val.price
        /\ \A i \in DOMAIN returned.orders :
            /\ returned.orders[i].action = (IF returned.orders[i].targetShares > returned.orders[i].currentShares THEN "BUY"
                                            ELSE IF returned.orders[i].targetShares < returned.orders[i].currentShares THEN "SELL" ELSE "HOLD")
            /\ returned.orders[i].shares >= 0
            /\ returned.orders[i].shares \in {returned.orders[i].targetShares - returned.orders[i].currentShares, returned.orders[i].currentShares - returned.orders[i].targetShares}
            /\ SharesAfter(returned.orders[i]) = returned.orders[i].targetShares
        /\ returned.totals.buyValue = ValueOf(returned.orders, DOMAIN returned.orders, "BUY")
        /\ returned.totals.sellValue = ValueOf(returned.orders, DOMAIN returned.orders, "SELL")
        /\ returned.totals.netCashFlow = returned.totals.sellValue - returned.totals.buyValue
        /\ \A i, j \in DOMAIN returned.orders :
            i < j => \/ ActionRank(returned.orders[i].action) < ActionRank(returned.orders[j].action)
                     \/ /\ returned.orders[i].action = returned.orders[j].action
                        /\ returned.orders[i].tradeValue >= returned.orders[j].tradeValue

\* three priced assets gave a BUY, a SELL and a HOLD order, and another time
\* two BUY orders of different value
C21_Witness ==
    /\ Called("calculateTradeOrders")
    /\ Len(returned.orders) = 3
    /\ returned.orders[1].action = "BUY"
    /\ returned.orders[2].action = "SELL"
    /\ returned.orders[3].action = "HOLD"
    /\ returned.orders[2].shares > 0
    /\ returned.totals.netCashFlow # 0

C21_WitnessSameAction ==
    /\ Called("calculateTradeOrders")
    /\ Len(returned.orders) = 3
    /\ returned.orders[1].action = "BUY"
    /\ returned.orders[2].action = "BUY"
    /\ returned.orders[1].tradeValue > returned.orders[2].tradeValue
    /\ returned.orders[1].ticker = "C"

(***************************************************************************)
(* Leverage in the metrics of an analysis (SpecRate).                      *)
(***************************************************************************)
\* the leverage an analysis runs at
LeverageOf(cfg) == IF cfg.leverageRate = Null THEN XInt(1) ELSE cfg.leverageRate

\* C24: for the data and target cash of an analysis at leverage L, the
\* annualized return and volatility are L times their values at leverage 1,
\* each VaR is L squared times its value at leverage 1, and the base metrics
\* are those at leverage 1
C24_LeverageScaling ==
    Analyzed =>
        \A one \in {analyze(priceHistory, assets, WithLeverage(1))} : \A L \in {LeverageOf(config)} : \A LL \in {XMul(L, L)} :
            /\ XEq(returned.annualizedReturn, XMul(L, one.annualizedReturn))
            /\ XEq(returned.annualizedVolatility, XMul(L, one.annualizedVolatility))
            /\ XEq(returned.var95_1d, XMul(LL, one.var95_1d))
            /\ XEq(returned.var99_1d, XMul(LL, one.var99_1d))
            /\ XEq(returned.var95_30d, XMul(LL, one.var95_30d))
            /\ XEq(returned.var99_30d, XMul(LL, one.var99_30d))
            /\ returned.baseDailyReturn = one.baseDailyReturn
            /\ returned.baseDailyVolatility = one.baseDailyVolatility
            /\ returned.baseAnnualizedReturn = one.baseAnnualizedReturn
            /\ returned.baseAnnualizedVolatility = one.baseAnnualizedVolatility

\* an analysis at leverage 3 of a portfolio with target cash, a non-zero
\* return and a non-zero volatility
C24_Witness ==
    /\ Analyzed
    /\ config.leverageRate = XInt(3)
    /\ ~XIsZero(config.targetCash)
    /\ ~XIsZero(returned.annualizedReturn)
    /\ ~XIsZero(returned.var95_30d)

(***************************************************************************)
(* The course of a calculation that passed its checks (SpecCalculate).     *)
(***************************************************************************)
\* parseFloat(input?.value) || 1
getLeverageRate(field) == IF field = <<>> \/ XIsZero(field[1]) THEN XInt(1) ELSE field[1]

\* Calculator.calculate went past the checks on assets and weights
CalculatePassedChecks == Called("calculate") /\ call.args # <<>>

\* C23: a Calculator.calculate with at least one asset and valid weights
\* copies target cash, lookback window and leverage rate from the UI into the
\* config and ends with 'Calculation complete'
C23_CalculateCompletes ==
    CalculatePassedChecks =>
        /\ config.targetCash = ConfigFromUI(config, call.args[1]).targetCash
        /\ config.lookbackWindow = ConfigFromUI(config, call.args[1]).lookbackWindow
        /\ config.leverageRate = getLeverageRate(call.args[1].leverageRate)
        /\ toast = Toast(<<"Calculation complete">>, "success")

(***************************************************************************)
(* SpecRuns: risk analysis and projection, run one after the other as in   *)
(* Calculator.calculate (main.js), any number of times on changing data.   *)
(***************************************************************************)
\* Projection.run(): the stored projection is the one for 252 days
run(metrics, cfg) == IF calculateAll(metrics, cfg) = Null THEN Null ELSE Get(calculateAll(metrics, cfg), 252)

\* const riskMetrics = await RiskAnalysis.analyze()
RunAnalysis ==
    /\ IF call = NoCall THEN TRUE ELSE call.fn = "run"
    /\ \E history \in FetchedHistories(assets) :
       \E metrics \in {analyze(history, assets, config)} :
        /\ priceHistory' = history
        /\ riskMetrics' = IF metrics = Null THEN riskMetrics ELSE metrics
        /\ call' = [fn |-> "analyze", args |-> <<>>]
        /\ returned' = metrics
        /\ UNCHANGED <<assets, config, projections, drawdownList, calcVars, appVars, envVars>>

\* const projection = Projection.run(); args keeps what analyze returned
RunProjection ==
    /\ Called("analyze")
    /\ \E all \in {calculateAll(riskMetrics, config)} :
        /\ projections' = IF all = Null THEN projections ELSE all
        /\ projection' = IF all = Null THEN projection ELSE Get(all, 252)
        /\ call' = [fn |-> "run", args |-> <<returned>>]
        /\ returned' = run(riskMetrics, config)
        /\ UNCHANGED <<priceHistory, assets, config, riskMetrics, drawdownList, latestPrices, positions, tradeOrders, appVars, envVars>>

NextRuns == RunAnalysis \/ RunProjection

SpecRuns == InitProj /\ [][NextRuns]_vars

\* C22: the projection of a run is derived from the risk metrics analyze
\* returned in that run, and a run whose analysis returned null produces no
\* projection
C22_ProjectionOfSameRun ==
    Called("run") =>
        IF call.args[1] = Null THEN returned = Null
        ELSE returned = run(call.args[1], config) /\ projection = returned

\* the stored risk metrics are those of the latest analysis
C22_MetricsOfLatestAnalysis == Called("analyze") /\ returned = Null => riskMetrics = Null

(***************************************************************************)
(* The stored backtest result (SpecSubperiods).                            *)
(***************************************************************************)
\* C29: App.state.backtestResult is null or a result with a non-empty
\* equity curve, and a run whose response has an empty equity curve shows an
\* error and keeps the stored result
C29_ResultNeverEmpty ==
    /\ appState.backtestResult = Null \/ Len(appState.backtestResult.equity_curve) > 0
    /\ Called("runSubperiodBacktest") /\ returned.ok /\ Len(returned.result.equity_curve) = 0 => toast.type = "error"

\* the same for the runs that fall back to App.runBacktest
C29_StandardRunKeepsResult ==
    [][RunStep /\ Len(EnabledPeriods(appState.subPeriods)) = 0 /\ (~returned'.ok \/ Len(returned'.result.equity_curve) = 0)
        => appState'.backtestResult = appState.backtestResult /\ toast'.type = "error"]_vars

(***************************************************************************)
(* Ticker management of the viewer (App.addTicker, App.removeTicker,       *)
(* App.equalizeWeights, App.updateWeightFromSlider; app.js).               *)
(***************************************************************************)
\* the most tickers typed into the ticker input at once
MaxTyped == 2

\* t.trim().toUpperCase() of the items that can be typed
UpperTrimmed(t) ==
    CASE t = "b" -> "B"
      [] t = " c" -> "C"
      [] t = " " -> ""
      [] OTHER -> t

\* rawInput.split(',').map(t => t.trim().toUpperCase()).filter(t => t.length > 0)
ParsedTickers(items) == SelectSeq([i \in DOMAIN items |-> UpperTrimmed(items[i])], LAMBDA t : t # "")

RECURSIVE SetAll(_, _, _)
\* weights[ticker] = weight for each ticker in turn
SetAll(weights, tickers, weight) ==
    IF tickers = <<>> THEN weights
    ELSE SetAll(MapSet(weights, Head(tickers), weight), Tail(tickers), weight)

\* a mutant of equalizeWeights: only the tickers with weight 0 get the equal share
equalizeWeights_NewOnly(state) ==
    [state EXCEPT !.weights = [i \in DOMAIN @ |-> IF @[i].val.n = 0 THEN [key |-> @[i].key, val |-> Q(1, Len(state.selectedTickers))] ELSE @[i]]]

equalizeWeights(state) ==
    IF Len(state.selectedTickers) = 0 THEN state
    ELSE [state EXCEPT !.weights = SetAll(@, state.selectedTickers, Q(1, Len(state.selectedTickers)))]

RECURSIVE AddLoop(_, _)
\* the loop of addTicker over the parsed tickers; acc is [state, added, skipped]
AddLoop(acc, tickers) ==
    IF tickers = <<>> THEN acc
    ELSE IF \E i \in DOMAIN acc.state.selectedTickers : acc.state.selectedTickers[i] = Head(tickers)
    THEN AddLoop([acc EXCEPT !.skipped = Append(@, Head(tickers))], Tail(tickers))
    ELSE AddLoop([acc EXCEPT !.state.selectedTickers = Append(@, Head(tickers)),
                             !.state.weights = MapSet(@, Head(tickers), QInt(0)),
                             !.added = Append(@, Head(tickers))], Tail(tickers))

\* addTicker with the items typed: [state, added, skipped] after it
addTicker(state, items) ==
    Once({IF Len(loop.added) > 0 THEN [loop EXCEPT !.state = equalizeWeights(loop.state)] ELSE loop :
          loop \in {AddLoop([state |-> state, added |-> <<>>, skipped |-> <<>>], ParsedTickers(items))}})

\* the state after removeTicker(ticker)
removeTicker(state, ticker) ==
    equalizeWeights([state EXCEPT !.selectedTickers = SelectSeq(@, LAMBDA t : t # ticker),
                                  !.weights = SelectSeq(@, LAMBDA entry : entry.key # ticker)])

\* parseInt(value) || 0 of a slider position, as a weight
updateWeightFromSlider(state, ticker, numValue) == [state EXCEPT !.weights = MapSet(@, ticker, Q(numValue, 100))]

(***************************************************************************)
(* SpecTickers: tickers are added, removed and re-weighted in any order.   *)
(***************************************************************************)
TypedItems == {"A", "b", " c", " "}

TypedInputs == UNION {[1..n -> TypedItems] : n \in 1..MaxTyped}

AddTicker ==
    \E items \in TypedInputs :
    \E out \in {addTicker(appState, items)} :
        /\ appState' = out.state
        /\ localStorage' = IF Len(out.added) > 0 THEN saveStateToStorage(localStorage, out.state) ELSE localStorage
        /\ toast' = IF Len(out.skipped) > 0 THEN Toast(<<"Already added: ">> \o out.skipped, "info")
                    ELSE IF Len(out.added) > 0 THEN Toast(<<"Added: ">> \o out.added, "success")
                    ELSE toast
        /\ call' = [fn |-> "addTicker", args |-> items]
        /\ returned' = Null
        /\ UNCHANGED <<priceHistory, assets, config, riskMetrics, projections, drawdownList, calcVars, request, fetches>>

RemoveTicker ==
    \E i \in DOMAIN appState.selectedTickers :
        /\ appState' = removeTicker(appState, appState.selectedTickers[i])
        /\ localStorage' = saveStateToStorage(localStorage, removeTicker(appState, appState.selectedTickers[i]))
        /\ call' = [fn |-> "removeTicker", args |-> <<appState.selectedTickers[i]>>]
        /\ returned' = Null
        /\ UNCHANGED <<priceHistory, assets, config, riskMetrics, projections, drawdownList, calcVars, request, toast, fetches>>

UpdateWeightFromSlider ==
    \E i \in DOMAIN appState.selectedTickers, numValue \in {0, 30} :
        /\ appState' = updateWeightFromSlider(appState, appState.selectedTickers[i], numValue)
        /\ localStorage' = saveStateToStorage(localStorage, updateWeightFromSlider(appState, appState.selectedTickers[i], numValue))
        /\ call' = [fn |-> "updateWeightFromSlider", args |-> <<appState.selectedTickers[i], numValue>>]
        /\ returned' = Null
        /\ UNCHANGED <<priceHistory, assets, config, riskMetrics, projections, drawdownList, calcVars, request, toast, fetches>>

NextTickers == AddTicker \/ RemoveTicker \/ UpdateWeightFromSlider

SpecTickers == InitCall /\ [][NextTickers]_vars

\* the ticker names an addTicker input holds
NamedTickers(items) == {UpperTrimmed(items[i]) : i \in DOMAIN items} \ {""}

Selected(state) == {state.selectedTickers[i] : i \in DOMAIN state.selectedTickers}

\* every weight is 1 / (number of selected tickers)
EqualWeights(state) == \A i \in DOMAIN state.weights : state.weights[i].val = Q(1, Len(state.selectedTickers))

\* C25: under addTicker and removeTicker (and slider changes in between) no
\* ticker is selected twice and the keys of weights are the selected tickers;
\* after an addTicker that adds a ticker and after a removeTicker that leaves
\* one, every weight is 1/n; an addTicker naming selected tickers only changes
\* neither tickers nor weights
C25_TickersAndWeights ==
    [][/\ Cardinality(Selected(appState')) = Len(appState'.selectedTickers)
       /\ KeySet(appState'.weights) = Selected(appState')
       /\ Len(appState'.weights) = Len(appState'.selectedTickers)
       /\ Called("addTicker")' /\ ~(NamedTickers(call'.args) \subseteq Selected(appState)) =>
            /\ EqualWeights(appState')
            /\ Selected(appState') = Selected(appState) \cup NamedTickers(call'.args)
       /\ Called("addTicker")' /\ NamedTickers(call'.args) \subseteq Selected(appState) =>
            appState'.selectedTickers = appState.selectedTickers /\ appState'.weights = appState.weights
       /\ Called("removeTicker")' =>
            /\ Selected(appState') = Selected(appState) \ {call'.args[1]}
            /\ Len(appState'.selectedTickers) > 0 => EqualWeights(appState')]_vars

\* a third ticker was added, typed twice in lower case, and every weight is 1/3
C25_Witness ==
    /\ Called("addTicker")
    /\ call.args = <<"b", "b">>
    /\ appState.selectedTickers = <<"A", "C", "B">>
    /\ EqualWeights(appState)
    /\ toast = Toast(<<"Already added: ", "B">>, "info")

(***************************************************************************)
(* CalculatorState.addAsset and CalculatorState.importFromViewer           *)
(* (part_001).  The viewer's weights are rationals, the calculator's exact *)
(* reals.                                                                  *)
(***************************************************************************)
\* the assets after addAsset(ticker, weight, currentShares)
addAsset(list, ticker, weight, currentShares) ==
    IF \E i \in DOMAIN list : list[i].ticker = UpperTrimmed(ticker)
    THEN [i \in DOMAIN list |-> IF list[i].ticker = UpperTrimmed(ticker) THEN [list[i] EXCEPT !.weight = weight, !.currentShares = currentShares] ELSE list[i]]
    ELSE Append(list, [ticker |-> UpperTrimmed(ticker), weight |-> weight, currentShares |-> currentShares])

\* weights[ticker] || (1 / tickers.length)
ImportedWeight(weights, ticker, n) ==
    IF HasKey(weights, ticker) /\ Get(weights, ticker).n # 0 THEN XQ(Get(weights, ticker)) ELSE XQ(Q(1, n))

RECURSIVE ImportEach(_, _, _, _)
\* tickers.forEach(ticker => this.addAsset(ticker, weight, 0))
ImportEach(list, tickers, weights, n) ==
    IF tickers = <<>> THEN list
    ELSE ImportEach(addAsset(list, Head(tickers), ImportedWeight(weights, Head(tickers), n), 0), Tail(tickers), weights, n)

\* importFromViewer(): [assets, storage, ok] after it
importFromViewer(list, cfg, storage) ==
    IF storage.viewer \in {Null, Unparseable} THEN [assets |-> list, storage |-> storage, ok |-> FALSE]
    ELSE Once({[assets |-> imported,
                storage |-> IF Len(storage.viewer.selectedTickers) > 0 THEN saveToStorage(storage, cfg, imported) ELSE storage,
                ok |-> Len(storage.viewer.selectedTickers) > 0] :
               imported \in {ImportEach(<<>>, storage.viewer.selectedTickers, storage.viewer.weights, Len(storage.viewer.selectedTickers))}})

(***************************************************************************)
(* SpecImport: importFromViewer in a calculator whose assets are saved,    *)
(* for any item the viewer can have left in localStorage.                  *)
(***************************************************************************)
\* weights stored for some of the tickers
StoredWeights(tickers) == UNION {MapsOver(ts, {QInt(0), Q(1, 4), Q(1, 2)}) : ts \in SubSeqs(tickers)}

ViewerItems ==
    {Null, Unparseable} \cup
    UNION {{[selectedTickers |-> ts, weights |-> ws, margin |-> Q(1, 1), dateRange |-> [start |-> 1, end |-> MaxDate], subPeriods |-> <<>>] :
              ws \in StoredWeights(ts)} : ts \in SubSeqs(<<"A", "B">>) \cup {<<"B", "A">>}}

InitImport ==
    /\ priceHistory = <<>>
    /\ assets \in AssetLists(<<"A", "C">>)
    /\ config \in Configs
    /\ riskMetrics = Null
    /\ projections = <<>>
    /\ drawdownList = [present |-> TRUE, innerHTML |-> <<>>]
    /\ latestPrices = <<>>
    /\ positions = Null
    /\ tradeOrders = Null
    /\ projection = Null
    /\ appState = AppStart
    /\ request = Null
    /\ toast = Null
    /\ \E item \in ViewerItems : localStorage = saveToStorage([NoStorage EXCEPT !.viewer = item], config, assets)
    /\ fetches = <<>>
    /\ call = NoCall
    /\ returned = NoCall

CallImportFromViewer ==
    /\ call = NoCall
    /\ \E out \in {importFromViewer(assets, config, localStorage)} :
        /\ assets' = out.assets
        /\ localStorage' = out.storage
        /\ call' = [fn |-> "importFromViewer", args |-> <<>>]
        /\ returned' = out.ok
        /\ UNCHANGED <<priceHistory, config, riskMetrics, projections, drawdownList, calcVars, appVars, fetches>>

NextImport == CallImportFromViewer

SpecImport == InitImport /\ [][NextImport]_vars

\* the viewer's item holds a state
ViewerStateStored == localStorage.viewer # Null /\ localStorage.viewer # Unparseable

\* C26: after importFromViewer with a viewer state stored, the assets are the
\* viewer's selected tickers in order, each with currentShares 0 and the
\* weight stored for it (0 when 0 is stored), or 1/n when none is stored
C26_ImportedAsStored ==
    Called("importFromViewer") /\ ViewerStateStored =>
        /\ Len(assets) = Len(localStorage.viewer.selectedTickers)
        /\ \A i \in DOMAIN assets :
            /\ assets[i].ticker = localStorage.viewer.selectedTickers[i]
            /\ assets[i].currentShares = 0
            /\ assets[i].weight = IF HasKey(localStorage.viewer.weights, assets[i].ticker)
                                  THEN XQ(Get(localStorage.viewer.weights, assets[i].ticker))
                                  ELSE XQ(Q(1, Len(assets)))

\* apart from a stored weight of 0, the import is as claimed
C26_ImportedUnlessZero ==
    Called("importFromViewer") /\ ViewerStateStored =>
        /\ Len(assets) = Len(localStorage.viewer.selectedTickers)
        /\ \A i \in DOMAIN assets :
            /\ assets[i].ticker = localStorage.viewer.selectedTickers[i]
            /\ assets[i].currentShares = 0
            /\ HasKey(localStorage.viewer.weights, assets[i].ticker) /\ Get(localStorage.viewer.weights, assets[i].ticker).n # 0
                => assets[i].weight = XQ(Get(localStorage.viewer.weights, assets[i].ticker))
            /\ ~HasKey(localStorage.viewer.weights, assets[i].ticker) => assets[i].weight = XQ(Q(1, Len(assets)))

\* C27: an importFromViewer that returns false leaves the assets as they
\* were, equal to the assets saved under the calculator's key
C27_FailedImportKeepsAssets ==
    [][Called("importFromViewer")' /\ returned' = FALSE =>
        assets' = assets /\ localStorage'.calculator.assets = assets']_vars

\* without a viewer state, or with one that cannot be parsed, that holds
C27_NoStateKeepsAssets ==
    [][Called("importFromViewer")' /\ ~ViewerStateStored => returned' = FALSE /\ assets' = assets /\ localStorage'.calculator.assets = assets']_vars

(***************************************************************************)
(* The viewer's configuration and its copy in localStorage.  The handlers  *)
(* of the page change App.state; those that end with saveStateToStorage    *)
(* refresh the copy, the others leave it as it was.  A reload builds the   *)
(* state from the copy.                                                    *)
(***************************************************************************)

\* sub-periods kept at a time when the stored copy is followed
MaxStored == 1

\* period.weights[ticker] = parseInt(value) / 100
updateSubPeriodWeight(state, id, ticker, value) ==
    IF FindPeriod(state.subPeriods, id) = 0 THEN state
    ELSE [state EXCEPT !.subPeriods[FindPeriod(state.subPeriods, id)].weights = MapSet(@, ticker, Q(value, 100))]

\* the auto-normalize toggle: the weights are normalized when it is checked
updateWeightsDisplay(state, autoNormalize) ==
    IF autoNormalize /\ Len(state.selectedTickers) > 0 THEN [state EXCEPT !.weights = normalizeWeights(state.weights)] ELSE state

\* margin = parseFloat(value) || 1.0, clamped to 0.1..10
updateMargin(state, field) ==
    LET margin == IF field = <<>> \/ field[1].n = 0 THEN Q(1, 1) ELSE field[1]
    IN  [state EXCEPT !.margin = IF QCmp(margin, Q(1, 10)) < 0 THEN Q(1, 10) ELSE IF QCmp(margin, QInt(10)) > 0 THEN QInt(10) ELSE margin]

\* this.state.subPeriods.filter(p => p.id !== id)
removeSubPeriod(state, id) == [state EXCEPT !.subPeriods = SelectSeq(@, LAMBDA p : p.id # id)]

\* the five years up to today, as dates of the model
DefaultDateRange == [start |-> 1, end |-> MaxDate]

\* App.init on a fresh page: the stored state, or the defaults
AppInit(storage) ==
    LET loaded == loadStateFromStorage(AppStart, storage)
    IN  IF loaded.dateRange.start = 0 THEN [loaded EXCEPT !.dateRange = DefaultDateRange] ELSE loaded

\* a session with tickers and a sub-period, saved as it is
InitStorage ==
    /\ priceHistory = <<>>
    /\ assets = <<>>
    /\ config = [targetCash |-> XInt(100000), lookbackWindow |-> 252, leverageRate |-> Null, riskFreeRate |-> Null]
    /\ riskMetrics = Null
    /\ projections = <<>>
    /\ drawdownList = [present |-> TRUE, innerHTML |-> EMPTY_STATE]
    /\ latestPrices = <<>>
    /\ positions = Null
    /\ tradeOrders = Null
    /\ projection = Null
    /\ appState \in {state \in ViewerStates : state.selectedTickers # <<>> /\ state.subPeriods # <<>>}
    /\ request = Null
    /\ toast = Null
    /\ localStorage = saveStateToStorage(NoStorage, appState)
    /\ fetches = <<>>
    /\ call = NoCall
    /\ returned = NoCall

UpdateSubPeriodWeight ==
    /\ call = NoCall
    /\ \E i \in DOMAIN appState.subPeriods, t \in DOMAIN appState.selectedTickers, value \in {30} :
        Edited(updateSubPeriodWeight(appState, appState.subPeriods[i].id, appState.selectedTickers[t], value))

UpdateWeightsDisplay ==
    /\ call = NoCall
    /\ \E autoNormalize \in BOOLEAN : Edited(updateWeightsDisplay(appState, autoNormalize))

UpdateMargin ==
    /\ call = NoCall
    /\ \E field \in {<<>>, <<QInt(11)>>} : EditedAndSaved(updateMargin(appState, field))

RemoveSubPeriod ==
    /\ call = NoCall
    /\ \E i \in DOMAIN appState.subPeriods : EditedAndSaved(removeSubPeriod(appState, appState.subPeriods[i].id))

\* the page is loaded again: App.init reads the stored state and announces it
Reload ==
    /\ call = NoCall
    /\ appState' = AppInit(localStorage)
    /\ request' = Null
    /\ toast' = IF localStorage.viewer \in {Null, Unparseable} THEN Null ELSE Toast(<<"Restored", Len(localStorage.viewer.selectedTickers), "tickers from last session">>, "info")
    /\ UNCHANGED <<priceHistory, assets, config, riskMetrics, projections, drawdownList, calcVars, call, returned, envVars>>

NextStorage ==
    \/ (Len(appState.subPeriods) < MaxStored /\ AddSubPeriod)
    \/ UpdateSubPeriodDate
    \/ UpdateSubPeriodWeight
    \/ UpdateSubPeriodMargin
    \/ ToggleSubPeriod
    \/ RemoveSubPeriod
    \/ UpdateWeightsDisplay
    \/ UpdateMargin
    \/ Reload

SpecStorage == InitStorage /\ [][NextStorage]_vars

\* the fields of App.state that saveStateToStorage writes
Persisted(state) == [selectedTickers |-> state.selectedTickers, weights |-> state.weights, margin |-> state.margin, dateRange |-> state.dateRange, subPeriods |-> state.subPeriods]

\* C28: after every operation that changes selectedTickers, weights, margin,
\* dateRange or subPeriods, the state a reload would restore from
\* localStorage is the state in memory, the sub-period edits made through
\* updateSubPeriodDate, updateSubPeriodWeight and updateSubPeriodMargin and
\* the auto-normalize toggle included.
C28_StoredEqualsState == Persisted(AppInit(localStorage)) = Persisted(appState)

\* C28, the handlers that end with saveStateToStorage: a step that changes
\* the global margin stores the new margin, and a step that adds, removes or
\* toggles a sub-period stores the whole state in memory.
C28_SavingEditsStored ==
    [][\A stored \in {AppInit(localStorage')} :
        /\ appState'.margin # appState.margin => stored.margin = appState'.margin
        /\ Len(appState'.subPeriods) # Len(appState.subPeriods) => Persisted(stored) = Persisted(appState')
        /\ (Len(appState'.subPeriods) = Len(appState.subPeriods) /\ \E i \in DOMAIN appState.subPeriods : appState'.subPeriods[i].enabled # appState.subPeriods[i].enabled) => Persisted(stored) = Persisted(appState')]_vars

(***************************************************************************)
(* The calculator's latest prices under overlapping fetches.  fetches is   *)
(* the log of the calls that lead to DataManager.fetchLatestPrices: a      *)
(* caller first awaits its own requests (Calculator.initializeData the     *)
(* freshness check and the update of stale data, Calculator.addAsset the   *)
(* loading of the new ticker), then fetchLatestPrices takes the tickers    *)
(* configured at that moment, awaits one price request per ticker and at   *)
(* the end replaces CalculatorState.prices by what it collected.  Between  *)
(* two awaits any other handler can run.  Calculator.calculate stops       *)
(* before its own call of fetchLatestPrices (see CalculateRun), so it      *)
(* starts no fetch.                                                        *)
(***************************************************************************)

\* calls leading to fetchLatestPrices that are followed
MaxFetches == 2

\* this.assets.map(a => a.ticker)
getTickers(list) == [i \in DOMAIN list |-> list[i].ticker]

\* a caller at the await that precedes its fetchLatestPrices
Waiting(caller, ticker) == [stage |-> "waiting", caller |-> caller, ticker |-> ticker, tickers |-> <<>>, pos |-> 0, prices |-> <<>>]

InFlight(fetch) == fetch.stage \in {"waiting", "fetching"}

\* fetchLatestPrices up to its first await: the tickers are read once; with
\* none the loop is skipped
fetchLatestPrices(fetch, list) == [fetch EXCEPT !.stage = IF Len(list) = 0 THEN "done" ELSE "fetching", !.tickers = getTickers(list), !.pos = 1]

\* prices[ticker] of the latest row; price: latest.adj_close || latest.close
PriceEntry(latest) == [date |-> latest.date, price |-> IF latest.adj_close # 0 THEN latest.adj_close ELSE latest.close]

\* what API.getPrices can answer: a throw (Null), no rows, or rows
PriceResponses == {Null, [data |-> <<>>], [data |-> <<[date |-> MaxDate, adj_close |-> 1, close |-> 2]>>], [data |-> <<[date |-> 1, adj_close |-> 1, close |-> 1], [date |-> MaxDate, adj_close |-> 0, close |-> 2]>>]}

\* one turn of the loop of fetchLatestPrices: the answer for tickers[pos]
priceReceived(fetch, response) ==
    [fetch EXCEPT !.prices = IF response # Null /\ Len(response.data) > 0 THEN MapSet(@, fetch.tickers[fetch.pos], PriceEntry(response.data[Len(response.data)])) ELSE @,
                  !.pos = @ + 1,
                  !.stage = IF fetch.pos = Len(fetch.tickers) THEN "done" ELSE "fetching"]

\* CalculatorState.removeAsset: the asset and its price entry go
removeAsset(list, prices, ticker) == [assets |-> SelectSeq(list, LAMBDA a : a.ticker # ticker), prices |-> SelectSeq(prices, LAMBDA entry : entry.key # ticker)]

\* the checks of Calculator.addAsset: the toast of a refusal, or Null
AddAssetChecks(list, ticker, weight) ==
    IF ticker = "" THEN Toast(<<"Please enter a ticker symbol">>, "error")
    ELSE IF XSgn(weight) <= 0 THEN Toast(<<"Please enter a valid weight">>, "error")
    ELSE IF \E i \in DOMAIN list : list[i].ticker = ticker THEN Toast(<<ticker, " already added">>, "info")
    ELSE Null

\* what the caller shows once its fetchLatestPrices has returned
FetchedToast(fetch, shown) == IF fetch.caller = "addAsset" THEN Toast(<<fetch.ticker, " added successfully">>, "success") ELSE shown

\* what the caller shows when the request it awaited first has thrown
NotFetchedToast(fetch) == IF fetch.caller = "addAsset" THEN Toast(<<"Failed to load data for ", fetch.ticker>>, "error") ELSE Toast(<<"Failed to update data: ">>, "error")

\* the calculator as loaded from its stored state, before initializeData
InitFetch ==
    /\ priceHistory = <<>>
    /\ assets \in AssetLists(<<"A">>)
    /\ config = [targetCash |-> XInt(100000), lookbackWindow |-> 252, leverageRate |-> Null, riskFreeRate |-> Null]
    /\ riskMetrics = Null
    /\ projections = <<>>
    /\ drawdownList = [present |-> TRUE, innerHTML |-> <<>>]
    /\ latestPrices = <<>>
    /\ positions = Null
    /\ tradeOrders = Null
    /\ projection = Null
    /\ appState = AppStart
    /\ request = Null
    /\ toast = Null
    /\ localStorage = saveToStorage(NoStorage, config, assets)
    /\ fetches = <<>>
    /\ call = NoCall
    /\ returned = NoCall

\* Calculator.initializeData up to its first await; with no asset it returns
InitializeData ==
    /\ fetches = <<>>
    /\ Len(getTickers(assets)) # 0
    /\ fetches' = <<Waiting("initializeData", "")>>
    /\ UNCHANGED <<priceHistory, assets, config, riskMetrics, projections, drawdownList, calcVars, appVars, localStorage, call, returned>>

\* Calculator.addAsset up to its first await
AddAsset ==
    \E ticker \in {"", "A", "B"}, weight \in {XInt(0), XQ(Q(1, 2))} :
        IF AddAssetChecks(assets, ticker, weight) # Null
        THEN /\ toast' = AddAssetChecks(assets, ticker, weight)
             /\ UNCHANGED <<priceHistory, assets, config, riskMetrics, projections, drawdownList, calcVars, appState, request, envVars, call, returned>>
        ELSE /\ Len(fetches) < MaxFetches
             /\ assets' = addAsset(assets, ticker, weight, 0)
             /\ localStorage' = saveToStorage(localStorage, config, addAsset(assets, ticker, weight, 0))
             /\ fetches' = Append(fetches, Waiting("addAsset", ticker))
             /\ UNCHANGED <<priceHistory, config, riskMetrics, projections, drawdownList, calcVars, appVars, call, returned>>

\* a completed call stays in the log as the record of the requests that were
\* answered; the record of a ticker ends when its asset is removed
Forgotten(fetch, ticker) ==
    IF InFlight(fetch) THEN fetch
    ELSE [fetch EXCEPT !.tickers = SelectSeq(@, LAMBDA t : t # ticker), !.prices = SelectSeq(@, LAMBDA entry : entry.key # ticker)]

\* Calculator.removeAsset
RemoveAsset ==
    \E i \in DOMAIN assets :
    \E out \in {removeAsset(assets, latestPrices, assets[i].ticker)} :
        /\ assets' = out.assets
        /\ latestPrices' = out.prices
        /\ localStorage' = saveToStorage(localStorage, config, out.assets)
        /\ toast' = Toast(<<assets[i].ticker, " removed">>, "info")
        /\ fetches' = [k \in DOMAIN fetches |-> Forgotten(fetches[k], assets[i].ticker)]
        /\ UNCHANGED <<priceHistory, config, riskMetrics, projections, drawdownList, positions, tradeOrders, projection, appState, request, call, returned>>

\* a fetch that has reached its end: CalculatorState.prices = prices, and
\* the caller goes on
Returned(fetch) ==
    /\ latestPrices' = fetch.prices
    /\ toast' = FetchedToast(fetch, toast)

\* the request a caller awaited first is over: fetchLatestPrices starts, or
\* the caller's catch block runs
BeginFetch ==
    \E i \in DOMAIN fetches, ok \in BOOLEAN :
        /\ fetches[i].stage = "waiting"
        /\ IF ok
           THEN \E fetch \in {fetchLatestPrices(fetches[i], assets)} :
                    /\ fetches' = [fetches EXCEPT ![i] = fetch]
                    /\ IF fetch.stage = "done" THEN Returned(fetch) ELSE UNCHANGED <<latestPrices, toast>>
           ELSE /\ fetches' = [fetches EXCEPT ![i].stage = "failed"]
                /\ toast' = NotFetchedToast(fetches[i])
                /\ UNCHANGED latestPrices
        /\ UNCHANGED <<priceHistory, assets, config, riskMetrics, projections, drawdownList, positions, tradeOrders, projection, appState, request, localStorage, call, returned>>

\* the answer to the price request a fetch is awaiting
PriceResponse ==
    \E i \in DOMAIN fetches, response \in PriceResponses :
        /\ fetches[i].stage = "fetching"
        /\ \E fetch \in {priceReceived(fetches[i], response)} :
            /\ fetches' = [fetches EXCEPT ![i] = fetch]
            /\ IF fetch.stage = "done" THEN Returned(fetch) ELSE UNCHANGED <<latestPrices, toast>>
        /\ UNCHANGED <<priceHistory, assets, config, riskMetrics, projections, drawdownList, positions, tradeOrders, projection, appState, request, localStorage, call, returned>>

NextFetch == InitializeData \/ AddAsset \/ RemoveAsset \/ BeginFetch \/ PriceResponse

SpecFetch == InitFetch /\ [][NextFetch]_vars

\* every call that leads to fetchLatestPrices is over
NoneInFlight == \A i \in DOMAIN fetches : ~InFlight(fetches[i])

\* a price request for the ticker was made since the asset was added, and
\* each one made was answered with rows
RequestSucceeded(ticker) ==
    /\ \E i \in DOMAIN fetches : fetches[i].stage = "done" /\ ticker \in Range(fetches[i].tickers)
    /\ \A i \in DOMAIN fetches : (fetches[i].stage = "done" /\ ticker \in Range(fetches[i].tickers)) => HasKey(fetches[i].prices, ticker)

\* C30: once all in-flight fetchLatestPrices calls have completed, prices
\* holds an entry for every configured asset whose price request succeeded
\* and no entry for an asset that was removed in the meantime.
C30_PricesMatchAssets ==
    NoneInFlight =>
        /\ \A i \in DOMAIN latestPrices : latestPrices[i].key \in Range(getTickers(assets))
        /\ \A t \in Range(getTickers(assets)) : RequestSucceeded(t) => HasKey(latestPrices, t)

\* C30, a single fetch: the step that ends a fetch leaves in prices
\* exactly the entries the fetch collected, each under a ticker it read when
\* it started and with the price of the latest row.
C30_FetchStoresCollected ==
    [][\A i \in DOMAIN fetches :
        (fetches[i].stage = "fetching" /\ fetches'[i].stage = "done") =>
            /\ latestPrices' = fetches'[i].prices
            /\ \A k \in DOMAIN latestPrices' : latestPrices'[k].key \in Range(fetches[i].tickers) /\ latestPrices'[k].val.price \in {1, 2}]_vars

C30_FetchWitness == \E i \in DOMAIN fetches : fetches[i].stage = "done" /\ Len(fetches[i].prices) = 2 /\ latestPrices = fetches[i].prices

====
